---------------------------- MODULE Spec2Model ----------------------------
(***************************************************************************)
(* Model of the retrieval-augmented answer pipeline of the Q&A dashboard:  *)
(* RAGService (src/ai_service.py) and the Q&A store it reads               *)
(* (src/mcp_qa_server.py), with the accounts (src/auth_models.py), the     *)
(* replies (src/reply_models.py) and the routes of the web application     *)
(* (src/web_app_with_replies.py).                                          *)
(*                                                                         *)
(* Text is modelled as a sequence of characters.  A Hangul syllable is one *)
(* character of a Python str; it is written here as one romanised token    *)
(* (su-hak for U+C218 U+D559), the same syllable always as the same token. *)
(* Latin letters keep their case so that str.lower() does something.       *)
(***************************************************************************)
EXTENDS Integers, Sequences, FiniteSets, TLC

VARIABLES
    \* RAGService fields (ai_service.py:25-28)
    qa_database,        \* whether a store is attached, and its entries in dict order
    openai_api_key,     \* truthiness of os.getenv("OPENAI_API_KEY")
    claude_api_key,     \* truthiness of os.getenv("ANTHROPIC_API_KEY")
    \* one generate_ai_answer request (ai_service.py:71-98)
    gen_pc,             \* "idle", "await_openai", "await_claude", "done"
    gen_question,
    gen_category,
    gen_context,
    gen_sources,
    gen_prompt,
    gen_calls,          \* links of the chain entered, in order
    gen_outcomes,       \* how each entered link ended, in order
    gen_result,         \* what generate_ai_answer returned or raised
    gen_baseline,       \* history: the last request a service with no provider
                        \* configured answered, and its response
    \* one classify_question_category call (ai_service.py:30-52)
    cls_pc,
    cls_question,
    cls_result,
    \* one search_relevant_qa call (ai_service.py:54-69)
    ret_pc,
    ret_question,
    ret_category,
    ret_result,
    \* one use of a CategorySpecialization formatter (ai_service.py:238-281)
    fmt_pc,             \* "idle", "ready", "once", "twice"
    fmt_kind,           \* "math" or "code"
    fmt_input,
    fmt_output,         \* the formatter applied to fmt_input
    fmt_output2,        \* the formatter applied to fmt_output
    \* the other stores of the web application (web_app_with_replies.py:28-29)
    auth_db,            \* AuthDatabase: users and sessions
    reply_db,           \* ReplyDatabase: replies
    now,                \* datetime.now(), in days
    app_last,           \* the answer to the request to an account or reply
                        \* route that is being served
    auth_gone,          \* history: the session ids deleted so far
    \* one /api/ask-ai request (web_app_with_replies.py:324-374)
    ask_pc,             \* "idle", "generating", "responded"
    ask_user,           \* request.current_user, None before the login check
    ask_question,       \* the question after strip()
    ask_category,
    ask_context,
    ask_stages,         \* history: the stages run so far, in order
    ask_formatters,     \* history: the formatters applied so far
    ask_response,       \* [status, body]
    \* several /api/ask-ai requests in flight on the one rag_service
    conc_req,           \* the local variables of each request
    conc_last,          \* history: the request that started last
    conc_solo           \* history: the last response to a request that ran
                        \* with no step of another request in between

svcVars == <<qa_database, openai_api_key, claude_api_key>>
genVars == <<gen_pc, gen_question, gen_category, gen_context, gen_sources,
             gen_prompt, gen_calls, gen_outcomes, gen_result>>
clsVars == <<cls_pc, cls_question, cls_result>>
retVars == <<ret_pc, ret_question, ret_category, ret_result>>
fmtVars == <<fmt_pc, fmt_kind, fmt_input, fmt_output, fmt_output2>>
appVars == <<auth_db, reply_db, now, app_last, auth_gone>>
askVars ==
    <<ask_pc, ask_user, ask_question, ask_category, ask_context, ask_stages,
      ask_formatters, ask_response>>
\* the groups added after the first four
concVars == <<conc_req, conc_last, conc_solo>>
extVars == <<fmtVars, appVars, askVars, concVars>>
vars == <<svcVars, genVars, gen_baseline, clsVars, retVars, extVars>>

-----------------------------------------------------------------------------
(* Bounds of the model *)

\* longest context list handed to generate_ai_answer
MaxContext == 4
\* number of pieces a classified question is put together from
MaxPieces == 2
\* most entries the Q&A store holds
MaxStore == 4

-----------------------------------------------------------------------------
(* Python values *)

None == "None"

\* What a call did: returned a value, or raised an exception of a class.
Return(v) == [raised |-> FALSE, exc |-> None, value |-> v]
Raise(e) == [raised |-> TRUE, exc |-> e, value |-> None]

Min(a, b) == IF a < b THEN a ELSE b

\* s[:n]
Take(s, n) == SubSeq(s, 1, Min(n, Len(s)))

\* str.lower(): cased letters are folded, everything else (Hangul syllables,
\* digits, punctuation) is kept.
AsciiUpper ==
    <<"A", "B", "C", "D", "E", "F", "G", "H", "I", "J", "K", "L", "M",
      "N", "O", "P", "Q", "R", "S", "T", "U", "V", "W", "X", "Y", "Z">>

AsciiLower ==
    <<"a", "b", "c", "d", "e", "f", "g", "h", "i", "j", "k", "l", "m",
      "n", "o", "p", "q", "r", "s", "t", "u", "v", "w", "x", "y", "z">>

LowerOf == [c \in {AsciiUpper[i] : i \in 1..26} |->
               AsciiLower[CHOOSE i \in 1..26 : AsciiUpper[i] = c]]

LowerChar(c) == IF c \in DOMAIN LowerOf THEN LowerOf[c] ELSE c

Lower(s) == [i \in 1..Len(s) |-> LowerChar(s[i])]

\* Python's `sub in s` on str
Contains(s, sub) ==
    \E i \in 0..(Len(s) - Len(sub)) :
        \A j \in 1..Len(sub) : s[i + j] = sub[j]

RECURSIVE Concat(_)
\* "".join(parts)
Concat(parts) ==
    IF parts = <<>> THEN <<>> ELSE Head(parts) \o Concat(Tail(parts))

RECURSIVE Join(_, _)
\* sep.join(parts)
Join(sep, parts) ==
    IF parts = <<>> THEN <<>>
    ELSE IF Len(parts) = 1 THEN parts[1]
    ELSE parts[1] \o sep \o Join(sep, Tail(parts))

\* All sequences over S of length at most n
SeqsUpTo(S, n) == UNION {[1..k -> S] : k \in 0..n}

-----------------------------------------------------------------------------
(* Categories: the labels of ai_service.py:41-52 *)

Math == "su-hak"
Science == "gwa-hak"
Programming == "peu-ro-geu-rae-ming"
Korean == "guk-eo"
English == "yeong-eo"
General == "il-ban"

Categories == {Math, Science, Programming, Korean, English, General}

-----------------------------------------------------------------------------
(* classify_question_category *)

\* A plausible slip: the last keyword of the list left out.
math_keywords_short ==
    << <<"su", "hak">>, <<"gye", "san">>, <<"gong", "sik">>,
       <<"bang", "jeong", "sik">>, <<"ham", "su">>, <<"mi", "bun">>,
       <<"jeok", "bun">>, <<"gi", "ha">> >>

math_keywords ==
    << <<"su", "hak">>, <<"gye", "san">>, <<"gong", "sik">>,
       <<"bang", "jeong", "sik">>, <<"ham", "su">>, <<"mi", "bun">>,
       <<"jeok", "bun">>, <<"gi", "ha">>, <<"dae", "su">> >>

science_keywords ==
    << <<"gwa", "hak">>, <<"mul", "ri">>, <<"hwa", "hak">>,
       <<"saeng", "mul">>, <<"sil", "heom">>, <<"won", "ri">>,
       <<"beop", "chik">> >>

programming_keywords ==
    << <<"peu", "ro", "geu", "rae", "ming">>, <<"ko", "ding">>,
       <<"pa", "i", "sseon">>, <<"ja", "ba", "seu", "keu", "rip", "teu">>,
       <<"al", "go", "ri", "jeum">>,
       <<"de", "i", "teo", "be", "i", "seu">> >>

korean_keywords ==
    << <<"guk", "eo">>, <<"mun", "beop">>, <<"mat", "chum", "beop">>,
       <<"mun", "hak">>, <<"jak", "mun">> >>

english_keywords ==
    << <<"yeong", "eo">>, <<"mun", "beop">>, <<"dan", "eo">>,
       <<"dok", "hae">>, <<"hoe", "hwa">> >>

\* any(keyword in question_lower for keyword in keywords)
AnyKeywordIn(question_lower, keywords) ==
    \E k \in 1..Len(keywords) : Contains(question_lower, keywords[k])

\* A plausible slip: the science test placed before the math test.
classify_science_first(question) ==
    LET question_lower == Lower(question) IN
    IF AnyKeywordIn(question_lower, science_keywords) THEN Science
    ELSE IF AnyKeywordIn(question_lower, math_keywords) THEN Math
    ELSE IF AnyKeywordIn(question_lower, programming_keywords) THEN Programming
    ELSE IF AnyKeywordIn(question_lower, korean_keywords) THEN Korean
    ELSE IF AnyKeywordIn(question_lower, english_keywords) THEN English
    ELSE General

classify_question_category(question) ==
    LET question_lower == Lower(question) IN
    IF AnyKeywordIn(question_lower, math_keywords) THEN Math
    ELSE IF AnyKeywordIn(question_lower, science_keywords) THEN Science
    ELSE IF AnyKeywordIn(question_lower, programming_keywords) THEN Programming
    ELSE IF AnyKeywordIn(question_lower, korean_keywords) THEN Korean
    ELSE IF AnyKeywordIn(question_lower, english_keywords) THEN English
    ELSE General

-----------------------------------------------------------------------------
(* AIResponse and the texts generate_ai_answer puts together *)

\* response.confidence; kept as the literal of the source
ProviderConfidence == "0.9"
FallbackConfidence == "0.6"

OpenAIReasoning == "OpenAI GPT-4 answer"
ClaudeReasoning == "Claude AI answer"
FallbackReasoning == "basic template-based answer (AI service not used)"

AIResponse(answer, confidence, category, sources, reasoning) ==
    [answer |-> answer, confidence |-> confidence, category |-> category,
     sources |-> sources, reasoning |-> reasoning]

\* A plausible slip: the list cut to three, as the footer of the template is.
BuildSources_first_three(context) ==
    [i \in 1..Min(3, Len(context)) |-> context[i].question]

\* sources, as the loop of lines 78-82 leaves it
BuildSources(context) == [i \in 1..Len(context) |-> context[i].question]

RECURSIVE ContextLines(_, _)
\* the lines the loop of 80-81 appends for items i, i+1, ...
ContextLines(context, i) ==
    IF i > Len(context) THEN <<>>
    ELSE <<ToString(i), ".", " ", "Q", ":", " ">> \o context[i].question
         \o <<"\n", " ", " ", " ", "A", ":", " ">> \o context[i].answer
         \o <<"\n">> \o ContextLines(context, i + 1)

\* context_text, as lines 75-81 leave it
BuildContextText(context) ==
    IF context # <<>>
    THEN <<"\n", "\n", "[related information:]", "\n">> \o ContextLines(context, 1)
    ELSE <<>>

_create_category_prompt(question, category, context) ==
    LET base_prompt ==
            <<"[question:]", " ">> \o question \o <<"\n", "[category:]", " ", category>>
            \o <<"\n", "\n">> \o context \o <<"\n", "\n", "[answer in Korean using the above]">>
    IN  IF category = Math
        THEN base_prompt \o <<"\n", "\n", "[math answer guidelines]">>
        ELSE IF category = Science
        THEN base_prompt \o <<"\n", "\n", "[science answer guidelines]">>
        ELSE IF category = Programming
        THEN base_prompt \o <<"\n", "\n", "[programming answer guidelines]">>
        ELSE base_prompt

-----------------------------------------------------------------------------
(* The provider calls *)

\* How one HTTP call to a provider can end.
ProviderOutcomes == {"ok", "status", "network", "timeout", "malformed"}

\* The exception a failed call raises inside _call_openai / _call_claude:
\* the explicit raise on a non-200 status, httpx's errors out of client.post,
\* a KeyError out of result[...] on a body of another shape.
RaisedBy(outcome) ==
    CASE outcome = "status" -> "Exception"
      [] outcome = "network" -> "httpx.ConnectError"
      [] outcome = "timeout" -> "httpx.TimeoutException"
      [] outcome = "malformed" -> "KeyError"

_call_openai(outcome, content, category, sources) ==
    IF outcome = "ok"
    THEN Return(AIResponse(content, ProviderConfidence, category, sources,
                           OpenAIReasoning))
    ELSE Raise(RaisedBy(outcome))

\* A plausible slip: the provider path given the fallback's confidence.
_call_claude_low_confidence(outcome, content, category, sources) ==
    IF outcome = "ok"
    THEN Return(AIResponse(content, FallbackConfidence, category, sources,
                           ClaudeReasoning))
    ELSE Raise(RaisedBy(outcome))

\* The inner try/except of 175-210 prints and raises the same exception again.
_call_claude(outcome, content, category, sources) ==
    LET r == IF outcome = "ok"
             THEN Return(AIResponse(content, ProviderConfidence, category,
                                    sources, ClaudeReasoning))
             ELSE Raise(RaisedBy(outcome))
    IN  IF r.raised THEN Raise(r.exc) ELSE r

-----------------------------------------------------------------------------
(* _generate_fallback_answer *)

\* A plausible slip: the first template of the dict as the default.
FallbackTemplate_math_by_default(category) ==
    CASE category = Science -> <<"[science template]">>
      [] category = Programming -> <<"[programming template]">>
      [] category = General -> <<"[general template]">>
      [] OTHER -> <<"[math template]">>

\* fallback_responses.get(category, fallback_responses[General])
FallbackTemplate(category) ==
    CASE category = Math -> <<"[math template]">>
      [] category = Science -> <<"[science template]">>
      [] category = Programming -> <<"[programming template]">>
      [] OTHER -> <<"[general template]">>

\* "\n".join(f"- {source}" for source in sources)
SourceLines(sources) ==
    Join(<<"\n">>, [i \in 1..Len(sources) |-> <<"-", " ">> \o sources[i]])

FooterHeader == <<"\n", "\n", "[related questions consulted:]", "\n">>

\* A plausible slip: the footer lists every source, not the first three.
_generate_fallback_answer_untruncated(question, category, sources) ==
    LET base_answer == FallbackTemplate(category) IN
    Return(AIResponse(
        IF sources # <<>>
        THEN base_answer \o FooterHeader \o SourceLines(sources)
        ELSE base_answer,
        FallbackConfidence, category, sources, FallbackReasoning))

\* A plausible slip: fallback_responses[category] in place of .get(category,
\* default), a KeyError for a category that has no template of its own.
_generate_fallback_answer_keyerror(question, category, sources) ==
    IF category \in {Math, Science, Programming, General}
    THEN Return(AIResponse(
            IF sources # <<>>
            THEN FallbackTemplate(category) \o FooterHeader
                 \o SourceLines(Take(sources, 3))
            ELSE FallbackTemplate(category),
            FallbackConfidence, category, sources, FallbackReasoning))
    ELSE Raise("KeyError")

_generate_fallback_answer(question, category, sources) ==
    LET base_answer == FallbackTemplate(category) IN
    Return(AIResponse(
        IF sources # <<>>
        THEN base_answer \o FooterHeader \o SourceLines(Take(sources, 3))
        ELSE base_answer,
        FallbackConfidence, category, sources, FallbackReasoning))

-----------------------------------------------------------------------------
(* generate_ai_answer: the chain of lines 87-98 *)

Providers == {"openai", "claude"}

\* the if / elif / else of lines 89-95
SelectLink(openai_key, claude_key) ==
    IF openai_key THEN "openai"
    ELSE IF claude_key THEN "claude"
    ELSE "fallback"

\* A plausible slip: the failed provider is called again.
ExceptLink_retry(failed) == failed

\* the handler of lines 96-98: whichever call raised, the template is next
ExceptLink(failed) == "fallback"

\* A plausible slip: `except httpx.HTTPError` in place of `except Exception`.
CaughtByExcept_httpx_only(exc) ==
    exc \in {"httpx.ConnectError", "httpx.TimeoutException"}

\* A plausible slip: the errors listed one by one, the timeout left out.
CaughtByExcept_but_timeouts(exc) ==
    exc \in {"Exception", "httpx.ConnectError", "KeyError"}

\* line 96, `except Exception`: every exception a call raises is an Exception
CaughtByExcept(exc) ==
    exc \in {"Exception", "httpx.ConnectError", "httpx.TimeoutException",
             "KeyError"}

AwaitPc(link) == IF link = "openai" THEN "await_openai" ELSE "await_claude"

FallbackOutcome(r) == IF r.raised THEN "raised" ELSE "ok"

\* The request is over: generate_ai_answer returns r.value or raises r.exc.
Finish(r, calls, outcomes) ==
    /\ gen_pc' = "done"
    /\ gen_result' = r
    /\ gen_calls' = calls
    /\ gen_outcomes' = outcomes

\* The request suspends in client.post of a provider.
Await(link, calls, outcomes) ==
    /\ gen_pc' = AwaitPc(link)
    /\ gen_calls' = Append(calls, link)
    /\ gen_outcomes' = outcomes
    /\ UNCHANGED gen_result

\* A plausible slip: the handler calls the template with an empty source list.
HandleRaise_drops_sources(r, failed, question, category, sources, calls, outcomes) ==
    IF ~CaughtByExcept(r.exc)
    THEN Finish(r, calls, outcomes)
    ELSE LET next == ExceptLink(failed) IN
         IF next = "fallback"
         THEN LET f == _generate_fallback_answer(question, category, <<>>)
              IN  Finish(f, Append(calls, "fallback"),
                         Append(outcomes, FallbackOutcome(f)))
         ELSE Await(next, calls, outcomes)

\* A call made inside the try block of 88-95 raised r.exc.
HandleRaise(r, failed, question, category, sources, calls, outcomes) ==
    IF ~CaughtByExcept(r.exc)
    THEN Finish(r, calls, outcomes)
    ELSE LET next == ExceptLink(failed) IN
         IF next = "fallback"
         THEN LET f == _generate_fallback_answer(question, category, sources)
              IN  Finish(f, Append(calls, "fallback"),
                         Append(outcomes, FallbackOutcome(f)))
         ELSE Await(next, calls, outcomes)

\* Lines 74-95, up to the first suspension (or to the return, when no
\* provider is configured).
GenerateStart(question, category, context) ==
    /\ gen_pc = "idle"
    /\ LET sources == BuildSources(context)
           context_text == BuildContextText(context)
           prompt == _create_category_prompt(question, category, context_text)
           link == SelectLink(openai_api_key, claude_api_key)
       IN  /\ gen_question' = question
           /\ gen_category' = category
           /\ gen_context' = context
           /\ gen_sources' = sources
           /\ gen_prompt' = prompt
           /\ IF link = "fallback"
              THEN LET f == _generate_fallback_answer(question, category, sources)
                   IN  IF f.raised
                       THEN HandleRaise(f, "fallback", question, category, sources,
                                        <<"fallback">>, <<"raised">>)
                       ELSE Finish(f, <<"fallback">>, <<"ok">>)
              ELSE Await(link, <<>>, <<>>)
    /\ UNCHANGED svcVars

\* client.post of _call_openai ends; lines 160-171, then 96-98 on a raise.
OpenAIReturns(outcome, content) ==
    /\ gen_pc = "await_openai"
    /\ LET r == _call_openai(outcome, content, gen_category, gen_sources)
           outcomes == Append(gen_outcomes, outcome)
       IN  IF r.raised
           THEN HandleRaise(r, "openai", gen_question, gen_category, gen_sources,
                            gen_calls, outcomes)
           ELSE Finish(r, gen_calls, outcomes)
    /\ UNCHANGED <<gen_question, gen_category, gen_context, gen_sources,
                   gen_prompt, svcVars>>

\* client.post of _call_claude ends; lines 194-210, then 96-98 on a raise.
ClaudeReturns(outcome, content) ==
    /\ gen_pc = "await_claude"
    /\ LET r == _call_claude(outcome, content, gen_category, gen_sources)
           outcomes == Append(gen_outcomes, outcome)
       IN  IF r.raised
           THEN HandleRaise(r, "claude", gen_question, gen_category, gen_sources,
                            gen_calls, outcomes)
           ELSE Finish(r, gen_calls, outcomes)
    /\ UNCHANGED <<gen_question, gen_category, gen_context, gen_sources,
                   gen_prompt, svcVars>>

\* The caller has the response; the service takes the next request.
GenerateReturn ==
    /\ gen_pc = "done"
    /\ gen_pc' = "idle"
    /\ gen_question' = <<>>
    /\ gen_category' = General
    /\ gen_context' = <<>>
    /\ gen_sources' = <<>>
    /\ gen_prompt' = <<>>
    /\ gen_calls' = <<>>
    /\ gen_outcomes' = <<>>
    /\ gen_result' = Return(None)
    /\ UNCHANGED svcVars

-----------------------------------------------------------------------------
(* Inputs of the generation requests *)

GenQuestions == {<<"su", "hak">>, <<"Q", "?">>}

\* the six labels of the classifier and one label it never produces
GenCategories == Categories \cup {"general"}

ContextPool ==
    { [question |-> <<"q", "1">>, answer |-> <<"a", "1">>,
       category |-> Math, tags |-> << <<"t">> >>],
      [question |-> <<"Q", "2", "\n">>, answer |-> <<>>,
       category |-> "general", tags |-> <<>>] }

GenContexts == SeqsUpTo(ContextPool, MaxContext)

\* message content of a well-formed provider body
ProviderContents == {<<"x", "=", "1">>, <<>>}

-----------------------------------------------------------------------------
(* Idle values of each group of variables *)

SvcIdle ==
    /\ qa_database = [attached |-> FALSE, data |-> <<>>]
    /\ openai_api_key = FALSE
    /\ claude_api_key = FALSE

GenIdle ==
    /\ gen_pc = "idle"
    /\ gen_question = <<>>
    /\ gen_category = General
    /\ gen_context = <<>>
    /\ gen_sources = <<>>
    /\ gen_prompt = <<>>
    /\ gen_calls = <<>>
    /\ gen_outcomes = <<>>
    /\ gen_result = Return(None)

NoBaseline ==
    [recorded |-> FALSE, question |-> <<>>, category |-> General,
     context |-> <<>>, response |-> AIResponse(<<>>, "", General, <<>>, "")]

ClsIdle ==
    /\ cls_pc = "idle"
    /\ cls_question = <<>>
    /\ cls_result = None

RetIdle ==
    /\ ret_pc = "idle"
    /\ ret_question = <<>>
    /\ ret_category = None
    /\ ret_result = Return(<<>>)

FmtIdle ==
    /\ fmt_pc = "idle"
    /\ fmt_kind = "math"
    /\ fmt_input = <<>>
    /\ fmt_output = <<>>
    /\ fmt_output2 = <<>>

\* app_last: the route or method of the call that is being answered, its
\* cookie and its input, the status and the error of the answer, the
\* exception a method raised, the user created, the session cookie set,
\* whether the route's own code ran and for which current_user, the reply
\* the call was about, the replies listed and the reply_stats of the answer
NoAnswer ==
    [route |-> "none", cookie |-> None, input |-> <<>>,
     status |-> 0, error |-> "", exc |-> None, created |-> None,
     set_cookie |-> None, current_user |-> None, handler_ran |-> FALSE,
     target |-> 0, listed |-> <<>>,
     reply_stats |-> [total_replies |-> 0, helpful_replies |-> 0]]

AppIdle ==
    /\ auth_db = [users |-> <<>>, sessions |-> {}, issued |-> 0]
    /\ reply_db = [replies |-> <<>>]
    /\ now = 0
    /\ app_last = NoAnswer
    /\ auth_gone = {}

NoResponse == [status |-> 0, body |-> [error |-> "no response"]]

AskIdle ==
    /\ ask_pc = "idle"
    /\ ask_user = None
    /\ ask_question = <<>>
    /\ ask_category = General
    /\ ask_context = <<>>
    /\ ask_stages = <<>>
    /\ ask_formatters = <<>>
    /\ ask_response = NoResponse

Requests == {"r1", "r2"}

IdleRequest ==
    [pc |-> "idle", question |-> <<>>, category |-> General,
     context |-> <<>>, sources |-> <<>>, outcome |-> "none",
     content |-> <<>>, alone |-> TRUE, response |-> NoResponse]

NoSolo ==
    [recorded |-> FALSE, question |-> <<>>, outcome |-> "none",
     content |-> <<>>, response |-> NoResponse]

ConcIdle ==
    /\ conc_req = [r \in Requests |-> IdleRequest]
    /\ conc_last = "r1"
    /\ conc_solo = NoSolo

ExtIdle == FmtIdle /\ AppIdle /\ AskIdle /\ ConcIdle

-----------------------------------------------------------------------------
(* Spec: generation requests against a service with any credential setup *)

Init ==
    /\ qa_database = [attached |-> FALSE, data |-> <<>>]
    /\ openai_api_key \in BOOLEAN
    /\ claude_api_key \in BOOLEAN
    /\ GenIdle
    /\ gen_baseline = NoBaseline
    /\ ClsIdle
    /\ RetIdle
    /\ ExtIdle

GenOthersUnchanged == UNCHANGED <<gen_baseline, clsVars, retVars, extVars>>

StartStep ==
    /\ \E q \in GenQuestions, c \in GenCategories, ctx \in GenContexts :
           GenerateStart(q, c, ctx)
    /\ GenOthersUnchanged

OpenAIStep ==
    /\ \E o \in ProviderOutcomes, a \in ProviderContents : OpenAIReturns(o, a)
    /\ GenOthersUnchanged

ClaudeStep ==
    /\ \E o \in ProviderOutcomes, a \in ProviderContents : ClaudeReturns(o, a)
    /\ GenOthersUnchanged

ReturnStep ==
    /\ GenerateReturn
    /\ GenOthersUnchanged

Next == StartStep \/ OpenAIStep \/ ClaudeStep \/ ReturnStep

Spec == Init /\ [][Next]_vars

\* A provider call ends: client.post carries timeout=30.0 (lines 157, 191).
FairSpec == Spec /\ WF_vars(OpenAIStep) /\ WF_vars(ClaudeStep)

-----------------------------------------------------------------------------
(* PairSpec: the service is constructed again under other credentials, and *)
(* the last answer of a service without providers is remembered            *)

\* RAGService.__init__ under another environment
Reconfigure(openai_key, claude_key) ==
    /\ gen_pc = "idle"
    /\ openai_api_key' = openai_key
    /\ claude_api_key' = claude_key
    /\ UNCHANGED <<qa_database, genVars>>

PairQuestions == {<<"Q", "?">>}
PairCategories == {Math, Korean}

PairStartStep ==
    /\ \E q \in PairQuestions, c \in PairCategories, ctx \in GenContexts :
           GenerateStart(q, c, ctx)
    /\ GenOthersUnchanged

PairReturnStep ==
    /\ GenerateReturn
    /\ gen_baseline' =
           IF ~openai_api_key /\ ~claude_api_key /\ ~gen_result.raised
           THEN [recorded |-> TRUE, question |-> gen_question,
                 category |-> gen_category, context |-> gen_context,
                 response |-> gen_result.value]
           ELSE gen_baseline
    /\ UNCHANGED <<clsVars, retVars, extVars>>

ReconfigureStep ==
    /\ \E ok \in BOOLEAN, ck \in BOOLEAN : Reconfigure(ok, ck)
    /\ GenOthersUnchanged

PairNext ==
    PairStartStep \/ OpenAIStep \/ ClaudeStep \/ PairReturnStep \/ ReconfigureStep

PairSpec == Init /\ [][PairNext]_vars

-----------------------------------------------------------------------------
(* TimeoutSpec: requests against one service; gen_baseline remembers the   *)
(* last answer to a request whose provider failed with an error status     *)

TimeoutCategories == {Math}

TimeoutStartStep ==
    /\ \E q \in PairQuestions, c \in TimeoutCategories, ctx \in GenContexts :
           GenerateStart(q, c, ctx)
    /\ GenOthersUnchanged

TimeoutReturnStep ==
    /\ GenerateReturn
    /\ gen_baseline' =
           IF /\ gen_calls[1] \in Providers
              /\ gen_outcomes[1] = "status"
              /\ ~gen_result.raised
           THEN [recorded |-> TRUE, question |-> gen_question,
                 category |-> gen_category, context |-> gen_context,
                 response |-> gen_result.value]
           ELSE gen_baseline
    /\ UNCHANGED <<clsVars, retVars, extVars>>

TimeoutNext ==
    TimeoutStartStep \/ OpenAIStep \/ ClaudeStep \/ TimeoutReturnStep

TimeoutSpec == Init /\ [][TimeoutNext]_vars

-----------------------------------------------------------------------------
(* Claims about generate_ai_answer *)

Range(s) == {s[i] : i \in 1..Len(s)}

EndsWith(s, suffix) ==
    /\ Len(suffix) <= Len(s)
    /\ SubSeq(s, Len(s) - Len(suffix) + 1, Len(s)) = suffix

\* C1: when OpenAI is configured and its call fails, Claude is attempted next
\* if its credential is configured, and the template is reached only after
\* Claude has failed too or when Claude is not configured.
C1_ClaudeTriedAfterOpenAIFails ==
    (/\ gen_pc = "done"
     /\ openai_api_key
     /\ Len(gen_calls) >= 1
     /\ gen_calls[1] = "openai"
     /\ gen_outcomes[1] # "ok")
    => /\ claude_api_key => (Len(gen_calls) >= 2 /\ gen_calls[2] = "claude")
       /\ \A i \in 1..Len(gen_calls) :
              gen_calls[i] = "fallback" =>
                  \/ ~claude_api_key
                  \/ \E j \in 1..(i - 1) :
                         gen_calls[j] = "claude" /\ gen_outcomes[j] # "ok"

\* C2: whatever the credentials and however the provider calls end,
\* generate_ai_answer returns an AIResponse and raises nothing.
C2_NoProviderExceptionPropagates ==
    gen_pc = "done" =>
        /\ ~gen_result.raised
        /\ DOMAIN gen_result.value =
               {"answer", "confidence", "category", "sources", "reasoning"}

\* a provider call that ended in each kind of failure has been recovered from
C2_Witness ==
    /\ gen_pc = "done"
    /\ gen_calls = <<"claude", "fallback">>
    /\ gen_outcomes[1] = "malformed"
    /\ ~gen_result.raised

\* the request ended with a link of the chain succeeding
GenSucceeded ==
    /\ ~gen_result.raised
    /\ gen_calls # <<>>
    /\ Len(gen_outcomes) = Len(gen_calls)
    /\ gen_outcomes[Len(gen_outcomes)] = "ok"

\* C3: every request reaches a terminal Success state (OpenAI, Claude or the
\* template succeeded) after finitely many links, and none ends otherwise.
C3_EveryRequestEndsInSuccess ==
    /\ [](gen_pc = "done" => (GenSucceeded /\ Len(gen_calls) <= 3))
    /\ (gen_pc \in {"await_openai", "await_claude"})
           ~> (gen_pc = "done" /\ GenSucceeded)

\* a request that exhausted its provider and ended in the template
C3_Witness ==
    /\ gen_pc = "done"
    /\ gen_calls = <<"openai", "fallback">>
    /\ gen_outcomes = <<"timeout", "ok">>
    /\ gen_category = Korean
    /\ GenSucceeded

LinkRank(link) ==
    CASE link = "openai" -> 1
      [] link = "claude" -> 2
      [] link = "fallback" -> 3

\* C4: within a request the links are entered in chain order, each at most
\* once (no retry, nothing after the template), and a provider whose
\* credential is not configured is never called.
C4_EachLinkOnceInOrder ==
    /\ \A i, j \in 1..Len(gen_calls) :
           i < j => LinkRank(gen_calls[i]) < LinkRank(gen_calls[j])
    /\ "openai" \in Range(gen_calls) => openai_api_key
    /\ "claude" \in Range(gen_calls) => claude_api_key

\* a failed provider call was followed by the template and nothing else
C4_Witness ==
    /\ gen_pc = "done"
    /\ claude_api_key
    /\ gen_calls = <<"openai", "fallback">>
    /\ gen_outcomes = <<"status", "ok">>

\* C5: a returned response has confidence 0.9 exactly when a provider call
\* succeeded, with the reasoning naming that provider, and 0.6 exactly when
\* the template produced it; its category is the category argument.
C5_ConfidenceByPath ==
    (gen_pc = "done" /\ ~gen_result.raised) =>
        LET v == gen_result.value
            last == gen_calls[Len(gen_calls)]
            providerSucceeded ==
                last \in Providers /\ gen_outcomes[Len(gen_outcomes)] = "ok"
        IN  /\ v.confidence \in {"0.9", "0.6"}
            /\ v.confidence = "0.9" <=> providerSucceeded
            /\ v.confidence = "0.6" <=> last = "fallback"
            /\ providerSucceeded =>
                   v.reasoning = IF last = "openai" THEN "OpenAI GPT-4 answer"
                                 ELSE "Claude AI answer"
            /\ v.category = gen_category

\* Claude answered a request
C5_Witness ==
    /\ gen_pc = "done"
    /\ gen_calls = <<"claude">>
    /\ gen_outcomes = <<"ok">>
    /\ gen_result.value.confidence = "0.9"

RECURSIVE FooterList(_, _, _)
\* "- " and the question of items i..k of the context, one per line
FooterList(context, i, k) ==
    IF i > k THEN <<>>
    ELSE (IF i > 1 THEN <<"\n">> ELSE <<>>)
         \o <<"-", " ">> \o context[i].question
         \o FooterList(context, i + 1, k)

BareTemplates == {FallbackTemplate(c) : c \in GenCategories}

\* C6: with neither credential configured the response has confidence 0.6 and
\* the template reasoning; a non-empty context puts the related-questions
\* footer with the first min(3, |context|) questions, verbatim and in order,
\* at the end of the answer, and an empty context leaves the template bare.
C6_NoProviderTemplateAndFooter ==
    (gen_pc = "done" /\ ~openai_api_key /\ ~claude_api_key) =>
        /\ ~gen_result.raised
        /\ LET v == gen_result.value
               n == Len(gen_context)
               footer == FooterHeader \o FooterList(gen_context, 1, Min(3, n))
           IN  /\ v.confidence = "0.6"
               /\ v.reasoning = "basic template-based answer (AI service not used)"
               /\ IF n = 0
                  THEN v.answer \in BareTemplates
                  ELSE /\ EndsWith(v.answer, footer)
                       /\ SubSeq(v.answer, 1, Len(v.answer) - Len(footer))
                              \in BareTemplates

\* a context longer than three items went through the template path
C6_Witness ==
    /\ gen_pc = "done"
    /\ ~openai_api_key
    /\ ~claude_api_key
    /\ Len(gen_context) > 3
    /\ gen_calls = <<"fallback">>

\* the request is the one the remembered no-provider answer was given to
SameRequestAsBaseline ==
    /\ gen_baseline.recorded
    /\ gen_baseline.question = gen_question
    /\ gen_baseline.category = gen_category
    /\ gen_baseline.context = gen_context

\* a provider was called and every provider call of the request failed
EveryProviderCallFailed ==
    /\ \E i \in 1..Len(gen_calls) : gen_calls[i] \in Providers
    /\ \A i \in 1..Len(gen_calls) :
           gen_calls[i] \in Providers => gen_outcomes[i] # "ok"

\* C7: the response to a request whose configured provider fails equals, field
\* by field, the response the same request got with no provider configured.
C7_FailingProviderEqualsNoProvider ==
    (/\ gen_pc = "done"
     /\ openai_api_key \/ claude_api_key
     /\ EveryProviderCallFailed
     /\ SameRequestAsBaseline)
    => /\ ~gen_result.raised
       /\ gen_result.value.answer = gen_baseline.response.answer
       /\ gen_result.value.confidence = gen_baseline.response.confidence
       /\ gen_result.value.category = gen_baseline.response.category
       /\ gen_result.value.sources = gen_baseline.response.sources
       /\ gen_result.value.reasoning = gen_baseline.response.reasoning

\* a request with context, answered without providers, is asked again of a
\* service whose provider times out
C7_Witness ==
    /\ gen_pc = "done"
    /\ claude_api_key
    /\ ~openai_api_key
    /\ gen_outcomes[1] = "timeout"
    /\ SameRequestAsBaseline
    /\ Len(gen_context) > 3
    /\ ~gen_result.raised

-----------------------------------------------------------------------------
(* ClassifySpec: classify_question_category applied to a question *)

Classify ==
    /\ cls_pc = "ready"
    /\ cls_result' = classify_question_category(cls_question)
    /\ cls_pc' = "done"
    /\ UNCHANGED cls_question

\* the nine math keywords of ai_service.py:35
C9_MathKeywords ==
    { <<"su", "hak">>, <<"gye", "san">>, <<"gong", "sik">>,
      <<"bang", "jeong", "sik">>, <<"ham", "su">>, <<"mi", "bun">>,
      <<"jeok", "bun">>, <<"gi", "ha">>, <<"dae", "su">> }

\* What the questions are put together from: every keyword, single syllables
\* of keywords, Latin letters of either case, and words of no category.
ClsPieces ==
    C9_MathKeywords \cup Range(science_keywords) \cup Range(programming_keywords)
    \cup Range(korean_keywords) \cup Range(english_keywords)
    \cup { <<"su">>, <<"hak">>, <<"A">>, <<"a">>, <<" ">>, <<"i", "cha">>,
           <<"o", "neul", " ", "nal", "ssi">> }

ClsQuestions == {Concat(ps) : ps \in SeqsUpTo(ClsPieces, MaxPieces)}

ClassifyInit ==
    /\ SvcIdle
    /\ GenIdle
    /\ gen_baseline = NoBaseline
    /\ RetIdle
    /\ ExtIdle
    /\ cls_pc = "ready"
    /\ cls_question \in ClsQuestions
    /\ cls_result = None

ClassifyStep ==
    /\ Classify
    /\ UNCHANGED <<svcVars, genVars, gen_baseline, retVars, extVars>>

ClassifyNext == ClassifyStep

ClassifySpec == ClassifyInit /\ [][ClassifyNext]_vars

CategoryOrder == <<Math, Science, Programming, Korean, English>>

KeywordsOf(category) ==
    CASE category = Math -> Range(math_keywords)
      [] category = Science -> Range(science_keywords)
      [] category = Programming -> Range(programming_keywords)
      [] category = Korean -> Range(korean_keywords)
      [] category = English -> Range(english_keywords)

\* keyword is a substring of question, ignoring case
OccursIgnoringCase(keyword, question) ==
    \E i \in 0..(Len(question) - Len(keyword)) :
        \A j \in 1..Len(keyword) :
            LowerChar(question[i + j]) = LowerChar(keyword[j])

\* the positions in CategoryOrder of the categories a keyword of which occurs
MatchingRanks(question) ==
    {r \in 1..Len(CategoryOrder) :
        \E kw \in KeywordsOf(CategoryOrder[r]) : OccursIgnoringCase(kw, question)}

\* C8: the result is the first category, in the order Math, Science,
\* Programming, Korean, English, one of whose keywords occurs in the question
\* ignoring case, and is General exactly when no keyword of any list occurs.
C8_FirstMatchingCategory ==
    cls_pc = "done" =>
        LET ranks == MatchingRanks(cls_question) IN
        /\ ranks # {} =>
               \E r \in ranks :
                   /\ \A r2 \in ranks : r <= r2
                   /\ cls_result = CategoryOrder[r]
        /\ cls_result = General <=> ranks = {}

\* a question with a science keyword ahead of a math keyword
C8_Witness ==
    /\ cls_pc = "done"
    /\ cls_question = <<"gwa", "hak", "su", "hak">>
    /\ cls_result = Math

\* C9: a question that contains a math keyword at any position is classified
\* Math, whatever other keywords it contains.
C9_MathKeywordGivesMath ==
    cls_pc = "done" =>
        ((\E kw \in C9_MathKeywords : Contains(cls_question, kw))
            => cls_result = Math)

\* a math keyword after the keyword shared by the Korean and English lists
C9_Witness ==
    /\ cls_pc = "done"
    /\ cls_question = <<"mun", "beop", "dae", "su">>
    /\ cls_result = Math

-----------------------------------------------------------------------------
(* The Q&A store (mcp_qa_server.py) and search_relevant_qa *)

\* str.lower() of a category label
LowerLabel(label) ==
    CASE label = "General" -> "general"
      [] OTHER -> label

\* A plausible slip: the tags are not searched.
EntryFound_no_tags(entry, query_lower, category) ==
    /\ \/ Contains(Lower(entry.question), query_lower)
       \/ Contains(Lower(entry.answer), query_lower)
    /\ \/ category = None
       \/ LowerLabel(entry.category) = LowerLabel(category)

\* A plausible slip: the category argument is not looked at.
EntryFound_any_category(entry, query_lower, category) ==
    \/ Contains(Lower(entry.question), query_lower)
    \/ Contains(Lower(entry.answer), query_lower)
    \/ \E t \in 1..Len(entry.tags) : Contains(Lower(entry.tags[t]), query_lower)

\* the test of lines 102-107 on one entry
EntryFound(entry, query_lower, category) ==
    /\ \/ Contains(Lower(entry.question), query_lower)
       \/ Contains(Lower(entry.answer), query_lower)
       \/ \E t \in 1..Len(entry.tags) : Contains(Lower(entry.tags[t]), query_lower)
    /\ \/ category = None
       \/ LowerLabel(entry.category) = LowerLabel(category)

\* QADatabase.search_qa over the entries in dict order
search_qa(data, query, category) ==
    LET query_lower == Lower(query)
        Found(entry) == EntryFound(entry, query_lower, category)
    IN  SelectSeq(data, Found)

\* QADatabase.add_qa: the new entry, under a fresh id, goes last in the dict
add_qa(data, question, answer, category, tags) ==
    Append(data, [id |-> Len(data) + 1, question |-> question,
                  answer |-> answer, category |-> category, tags |-> tags])

\* the dict of lines 62-67
ContextItem(entry) ==
    [question |-> entry.question, answer |-> entry.answer,
     category |-> entry.category, tags |-> entry.tags]

\* A plausible slip: every result is returned, the [:3] left out.
search_relevant_qa_untruncated(db, question, category) ==
    IF ~db.attached
    THEN Return(<<>>)
    ELSE LET results == search_qa(db.data, question, category)
         IN  Return([i \in 1..Len(results) |-> ContextItem(results[i])])

\* A plausible slip: results[-3:], the last three results.
search_relevant_qa_last_three(db, question, category) ==
    IF ~db.attached
    THEN Return(<<>>)
    ELSE LET results == search_qa(db.data, question, category)
             n == Len(results)
             top == SubSeq(results, IF n > 3 THEN n - 2 ELSE 1, n)
         IN  Return([i \in 1..Len(top) |-> ContextItem(top[i])])

\* RAGService.search_relevant_qa; db.attached is the truth value of
\* self.qa_database
search_relevant_qa(db, question, category) ==
    IF ~db.attached
    THEN Return(<<>>)
    ELSE LET results == search_qa(db.data, question, category)
             top == Take(results, 3)
         IN  Return([i \in 1..Len(top) |-> ContextItem(top[i])])

-----------------------------------------------------------------------------
(* RetrieveSpec: entries are added to the store and the retriever is called *)

EntryPool ==
    { [question |-> <<"su", "hak">>, answer |-> <<"A", "b">>,
       category |-> Math, tags |-> <<>>],
      [question |-> <<"Q">>, answer |-> <<"su", "hak">>,
       category |-> "general", tags |-> << <<"B">>, <<"a">> >>],
      [question |-> <<"q">>, answer |-> <<>>,
       category |-> "General", tags |-> << <<"su">> >>] }

RetQueries == {<<>>, <<"a">>, <<"su", "hak">>, <<"Q">>, <<"z">>}
RetCategories == {None, Math, "general", Science}

AddQA(entry) ==
    /\ ret_pc = "idle"
    /\ qa_database.attached
    /\ Len(qa_database.data) < MaxStore
    /\ qa_database' =
           [qa_database EXCEPT
               !.data = add_qa(@, entry.question, entry.answer,
                               entry.category, entry.tags)]
    /\ UNCHANGED <<openai_api_key, claude_api_key, retVars>>

SearchRelevantQA(question, category) ==
    /\ ret_pc = "idle"
    /\ ret_question' = question
    /\ ret_category' = category
    /\ ret_result' = search_relevant_qa(qa_database, question, category)
    /\ ret_pc' = "done"
    /\ UNCHANGED svcVars

\* QADatabase.search_qa called on the store itself (the search endpoint)
StoreSearch(query, category) ==
    /\ ret_pc = "idle"
    /\ qa_database.attached
    /\ ret_question' = query
    /\ ret_category' = category
    /\ ret_result' = Return(search_qa(qa_database.data, query, category))
    /\ ret_pc' = "searched"
    /\ UNCHANGED svcVars

\* The caller has the list.
RetrieveReturn ==
    /\ ret_pc \in {"done", "searched"}
    /\ ret_pc' = "idle"
    /\ ret_question' = <<>>
    /\ ret_category' = None
    /\ ret_result' = Return(<<>>)
    /\ UNCHANGED svcVars

RetrieveInit ==
    /\ qa_database \in {[attached |-> b, data |-> <<>>] : b \in BOOLEAN}
    /\ openai_api_key = FALSE
    /\ claude_api_key = FALSE
    /\ GenIdle
    /\ gen_baseline = NoBaseline
    /\ ClsIdle
    /\ RetIdle
    /\ ExtIdle

RetOthersUnchanged == UNCHANGED <<genVars, gen_baseline, clsVars, extVars>>

AddQAStep ==
    /\ \E e \in EntryPool : AddQA(e)
    /\ RetOthersUnchanged

SearchStep ==
    /\ \E q \in RetQueries, c \in RetCategories : SearchRelevantQA(q, c)
    /\ RetOthersUnchanged

StoreSearchStep ==
    /\ \E q \in RetQueries, c \in RetCategories : StoreSearch(q, c)
    /\ RetOthersUnchanged

RetrieveReturnStep ==
    /\ RetrieveReturn
    /\ RetOthersUnchanged

RetrieveNext ==
    AddQAStep \/ SearchStep \/ StoreSearchStep \/ RetrieveReturnStep

RetrieveSpec == RetrieveInit /\ [][RetrieveNext]_vars

\* the entry is one the store's search finds for the query and the category
EntryMatches(entry, query, category) ==
    /\ \/ OccursIgnoringCase(query, entry.question)
       \/ OccursIgnoringCase(query, entry.answer)
       \/ \E t \in 1..Len(entry.tags) : OccursIgnoringCase(query, entry.tags[t])
    /\ category # None => LowerLabel(entry.category) = LowerLabel(category)

\* C10: search_relevant_qa returns at most 3 items whatever the store holds,
\* and returns the empty list, raising nothing, when no store is attached,
\* when the store is empty and when no entry matches.
C10_AtMostThreeAndEmptyWithoutMatch ==
    ret_pc = "done" =>
        /\ ~ret_result.raised
        /\ Len(ret_result.value) <= 3
        /\ (\/ ~qa_database.attached
            \/ qa_database.data = <<>>
            \/ \A i \in 1..Len(qa_database.data) :
                   ~EntryMatches(qa_database.data[i], ret_question, ret_category))
               => ret_result.value = <<>>

\* more than three entries match and three come back
C10_Witness ==
    /\ ret_pc = "done"
    /\ Len(qa_database.data) > 3
    /\ \A i \in 1..Len(qa_database.data) :
           EntryMatches(qa_database.data[i], ret_question, ret_category)
    /\ Len(ret_result.value) = 3

\* C11: the list search_relevant_qa returns is the first min(3, n) of the n
\* results of the store's search_qa(question, category), in the same order,
\* each reduced to its question, answer, category and tags.
C11_FirstThreeSearchResultsProjected ==
    (ret_pc = "done" /\ qa_database.attached) =>
        LET results == search_qa(qa_database.data, ret_question, ret_category)
            k == Min(3, Len(results))
            got == ret_result.value
        IN  /\ Len(got) = k
            /\ \A i \in 1..k :
                   /\ DOMAIN got[i] = {"question", "answer", "category", "tags"}
                   /\ got[i].question = results[i].question
                   /\ got[i].answer = results[i].answer
                   /\ got[i].category = results[i].category
                   /\ got[i].tags = results[i].tags

\* four entries match, and the fourth differs from the first three
C11_Witness ==
    /\ ret_pc = "done"
    /\ Len(search_qa(qa_database.data, ret_question, ret_category)) = 4
    /\ qa_database.data[4].question # qa_database.data[1].question
    /\ Len(ret_result.value) = 3
    /\ ret_result.value[1].question = qa_database.data[1].question

\* C20: search_qa returns an entry exactly when the query is a substring,
\* ignoring case, of its question, its answer or one of its tags, and the
\* category is null or equals the entry's category ignoring case; the search
\* leaves the store as it was.
C20_SearchFindsExactlyTheMatches ==
    /\ [](ret_pc = "searched" =>
            /\ \A i \in 1..Len(qa_database.data) :
                   (\E j \in 1..Len(ret_result.value) :
                        ret_result.value[j] = qa_database.data[i])
                   <=> EntryMatches(qa_database.data[i], ret_question,
                                    ret_category)
            /\ \A j \in 1..Len(ret_result.value) :
                   \E i \in 1..Len(qa_database.data) :
                       ret_result.value[j] = qa_database.data[i]
            /\ \A j, k \in 1..Len(ret_result.value) :
                   ret_result.value[j] = ret_result.value[k] => j = k)
    /\ [][ret_pc' = "searched" => qa_database' = qa_database]_vars

\* an entry found through a tag only, beside an entry whose answer holds the
\* query in another case and whose category leaves it out
C20_Witness ==
    /\ ret_pc = "searched"
    /\ ret_question = <<"a">>
    /\ ret_category = "general"
    /\ Len(qa_database.data) = 2
    /\ qa_database.data[1].category = Math
    /\ qa_database.data[2].category = "general"
    /\ Len(ret_result.value) = 1
    /\ ret_result.value[1].id = 2

-----------------------------------------------------------------------------
(* CategorySpecialization: the answer formatters (ai_service.py:238-281).   *)
(* Text is a sequence of one-character tokens; each re.sub pass is one      *)
(* left-to-right scan that replaces the leftmost matches, without overlap.  *)
(* A non-ASCII glyph is one token carrying its name.                        *)

Digits == {"0", "1", "2", "3", "4", "5", "6", "7", "8", "9"}

AsciiLetters == {AsciiUpper[i] : i \in 1..26} \cup {AsciiLower[i] : i \in 1..26}

\* the Greek letters of the symbol pattern: letters, so \w matches them
GreekGlyphs ==
    {"alpha", "beta", "gamma", "delta", "theta", "lambda", "mu", "pi",
     "sigma", "phi", "psi", "omega"}

\* the other glyphs of the symbol pattern: symbols, so \w does not match them
SymbolGlyphs == {"integral", "sum", "product", "sqrt", "infinity"}

\* the Hangul syllables of the keyword lists: letters, so \w matches them
HangulSyllables ==
    UNION {Range(k) :
           k \in Range(math_keywords) \cup Range(science_keywords)
                     \cup Range(programming_keywords)
                     \cup Range(korean_keywords)}

\* \w
WordChars ==
    AsciiLetters \cup Digits \cup {"_"} \cup GreekGlyphs \cup HangulSyllables

IsWord(c) == c \in WordChars

\* \s
SpaceChars == {" ", "\n", "\t"}

\* [+\-*/=]
OperatorChars == {"+", "-", "*", "/", "="}

\* [a-zA-Z0-9]
AsciiAlnum == AsciiLetters \cup Digits

\* the backtick character, one token carrying its name
Backtick == "backtick"

\* the characters of s other than the backtick
NotBacktick(s) == {s[k] : k \in 1..Len(s)} \ {Backtick}

\* a greedy run X* from position i, X a class of characters: the position
\* after its last character
RunEnd(s, i, class) ==
    CHOOSE e \in i..(Len(s) + 1) :
        /\ \A k \in i..(e - 1) : s[k] \in class
        /\ e = Len(s) + 1 \/ s[e] \notin class

Drop(s, n) == SubSeq(s, n + 1, Len(s))

StartsWith(s, prefix) ==
    /\ Len(prefix) <= Len(s)
    /\ SubSeq(s, 1, Len(prefix)) = prefix

\* (\w+)\*\*(\w+) matched at the start of s: the positions after the base
\* and after the exponent, or <<0, 0>> when there is no match here
ExponentMatch(s) ==
    LET e == RunEnd(s, 1, WordChars)
    IN  IF /\ e > 1
           /\ e + 2 <= Len(s)
           /\ s[e] = "*"
           /\ s[e + 1] = "*"
           /\ IsWord(s[e + 2])
        THEN <<e, RunEnd(s, e + 2, WordChars)>>
        ELSE <<0, 0>>

\* the exponent pass: every match becomes $ base ^{ exponent }$
RECURSIVE RewriteExponents(_)
RewriteExponents(s) ==
    IF s = <<>> THEN <<>>
    ELSE LET m == ExponentMatch(s)
         IN  IF m[1] = 0
             THEN <<s[1]>> \o RewriteExponents(Tail(s))
             ELSE <<"$">> \o SubSeq(s, 1, m[1] - 1) \o <<"^", "{">>
                      \o SubSeq(s, m[1] + 2, m[2] - 1) \o <<"}", "$">>
                      \o RewriteExponents(Drop(s, m[2] - 1))

\* the three patterns wrapped in inline-math delimiters, in this order
math_patterns == <<"letter expression", "number expression", "symbol">>

\* operand, \s*, operator, \s*, then a run of the closing class, the
\* operand ending before position i: the position after the match, or 0
ExpressionEnd(s, i, closing) ==
    LET j == RunEnd(s, i, SpaceChars)
    IN  IF j <= Len(s) /\ s[j] \in OperatorChars
        THEN LET k == RunEnd(s, j + 1, SpaceChars)
             IN  IF k <= Len(s) /\ s[k] \in closing
                 THEN RunEnd(s, k, closing)
                 ELSE 0
        ELSE 0

\* the position after the match of a pattern at the start of s, or 0
PatternEnd(pattern, s) ==
    CASE pattern = "letter expression" ->
             IF s[1] \in AsciiLetters THEN ExpressionEnd(s, 2, AsciiAlnum)
             ELSE 0
      [] pattern = "number expression" ->
             IF s[1] \in Digits
             THEN ExpressionEnd(s, RunEnd(s, 1, Digits), Digits)
             ELSE 0
      [] pattern = "symbol" ->
             IF s[1] \in GreekGlyphs \cup SymbolGlyphs THEN 2 ELSE 0

\* one pass of the loop over math_patterns: every match is put between
\* two "$"
RECURSIVE WrapMatches(_, _)
WrapMatches(pattern, s) ==
    IF s = <<>> THEN <<>>
    ELSE LET e == PatternEnd(pattern, s)
         IN  IF e = 0
             THEN <<s[1]>> \o WrapMatches(pattern, Tail(s))
             ELSE <<"$">> \o SubSeq(s, 1, e - 1) \o <<"$">>
                      \o WrapMatches(pattern, Drop(s, e - 1))

format_math_answer(answer) ==
    WrapMatches(math_patterns[3],
        WrapMatches(math_patterns[2],
            WrapMatches(math_patterns[1], RewriteExponents(answer))))

Fence == <<Backtick, Backtick, Backtick>>

\* the language parameter's default, 'python'
DefaultLanguage == <<"p", "y", "t", "h", "o", "n">>

\* code_pattern matched at the start of s: the opening fence, an optional
\* run of word characters, a newline, the shortest text (newlines included)
\* that is followed by a newline and a closing fence.  The result gives the
\* position of the newline after the tag and of the newline before the
\* closing fence, or <<0, 0>> when there is no match here.
CodeMatch(s) ==
    IF ~StartsWith(s, Fence) THEN <<0, 0>>
    ELSE LET j == RunEnd(s, 4, WordChars)
             closings == {k \in (j + 1)..(Len(s) - 3) :
                              /\ s[k] = "\n"
                              /\ SubSeq(s, k + 1, k + 3) = Fence}
         IN  IF j <= Len(s) /\ s[j] = "\n" /\ closings # {}
             THEN <<j, CHOOSE k \in closings : \A l \in closings : k <= l>>
             ELSE <<0, 0>>

\* replace_code: the block with its own tag, or with the language when it
\* has none
replace_code(group1, group2, language) ==
    LET lang == IF group1 = <<>> THEN language ELSE group1
    IN  Fence \o lang \o <<"\n">> \o group2 \o <<"\n">> \o Fence

\* re.sub(code_pattern, replace_code, answer, flags=re.DOTALL)
RECURSIVE RewriteCodeBlocks(_, _)
RewriteCodeBlocks(s, language) ==
    IF s = <<>> THEN <<>>
    ELSE LET m == CodeMatch(s)
         IN  IF m[1] = 0
             THEN <<s[1]>> \o RewriteCodeBlocks(Tail(s), language)
             ELSE replace_code(SubSeq(s, 4, m[1] - 1),
                               SubSeq(s, m[1] + 1, m[2] - 1), language)
                      \o RewriteCodeBlocks(Drop(s, m[2] + 3), language)

CodeOpen == <<"<", "c", "o", "d", "e", ">">>

CodeClose == <<"<", "/", "c", "o", "d", "e", ">">>

\* the inline pattern matched at the start of s: a backtick, one or more
\* other characters, a backtick; the position of the closing one, or 0
InlineMatch(s) ==
    IF s[1] # Backtick THEN 0
    ELSE LET e == RunEnd(s, 2, NotBacktick(s))
         IN  IF e > 2 /\ e <= Len(s) THEN e ELSE 0

\* the inline pass: every match becomes <code> content </code>
RECURSIVE RewriteInlineCode(_)
RewriteInlineCode(s) ==
    IF s = <<>> THEN <<>>
    ELSE LET e == InlineMatch(s)
         IN  IF e = 0
             THEN <<s[1]>> \o RewriteInlineCode(Tail(s))
             ELSE CodeOpen \o SubSeq(s, 2, e - 1) \o CodeClose
                      \o RewriteInlineCode(Drop(s, e))

format_code_answer(answer, language) ==
    RewriteInlineCode(RewriteCodeBlocks(answer, language))

-----------------------------------------------------------------------------
(* FormatSpec: a formatter applied to a text, then to its own output *)

MaxFmtPieces == 5

MathPieces ==
    {<<"x">>, <<"2">>, <<"*", "*">>, <<"+">>, <<" ">>, <<"$">>, <<"pi">>}

\* "x**2 + y**2 = r**2"
ExponentScenario ==
    <<"x", "*", "*", "2", " ", "+", " ", "y", "*", "*", "2", " ", "=", " ",
      "r", "*", "*", "2">>

MathInputs ==
    {Concat(p) : p \in SeqsUpTo(MathPieces, MaxFmtPieces)}
        \cup {ExponentScenario}

CodePieces ==
    {Fence \o <<"\n">>, Fence \o <<"j", "s", "\n">>, <<"\n">> \o Fence,
     <<"x">>, <<Backtick>>, <<" ">>, <<"\n">>}

CodeInputs == {Concat(p) : p \in SeqsUpTo(CodePieces, MaxFmtPieces)}

Format(kind, text) ==
    IF kind = "math" THEN format_math_answer(text)
    ELSE format_code_answer(text, DefaultLanguage)

FormatInit ==
    /\ SvcIdle
    /\ GenIdle
    /\ gen_baseline = NoBaseline
    /\ ClsIdle
    /\ RetIdle
    /\ AppIdle
    /\ AskIdle
    /\ ConcIdle
    /\ fmt_pc = "ready"
    /\ fmt_kind \in {"math", "code"}
    /\ fmt_input \in IF fmt_kind = "math" THEN MathInputs ELSE CodeInputs
    /\ fmt_output = <<>>
    /\ fmt_output2 = <<>>

FmtOthersUnchanged ==
    UNCHANGED <<svcVars, genVars, gen_baseline, clsVars, retVars, appVars,
                askVars, concVars>>

FormatStep ==
    /\ fmt_pc = "ready"
    /\ fmt_pc' = "once"
    /\ fmt_output' = Format(fmt_kind, fmt_input)
    /\ UNCHANGED <<fmt_kind, fmt_input, fmt_output2>>
    /\ FmtOthersUnchanged

FormatAgainStep ==
    /\ fmt_pc = "once"
    /\ fmt_pc' = "twice"
    /\ fmt_output2' = Format(fmt_kind, fmt_output)
    /\ UNCHANGED <<fmt_kind, fmt_input, fmt_output>>
    /\ FmtOthersUnchanged

FormatReturnStep ==
    /\ fmt_pc = "twice"
    /\ fmt_pc' = "ready"
    /\ fmt_output' = <<>>
    /\ fmt_output2' = <<>>
    /\ UNCHANGED <<fmt_kind, fmt_input>>
    /\ FmtOthersUnchanged

FormatNext == FormatStep \/ FormatAgainStep \/ FormatReturnStep

FormatSpec == FormatInit /\ [][FormatNext]_vars

\* C12: format_math_answer is idempotent on a text that already holds
\* inline-math delimiters: applied to its own output it returns that output
\* again, nothing delimited being wrapped a second time.
C12_MathFormatIdempotentOnDelimited ==
    (fmt_pc = "twice" /\ fmt_kind = "math" /\ "$" \in Range(fmt_input)) =>
        fmt_output2 = fmt_output

\* the (base, exponent) pairs of a text: a "**" between two word characters,
\* with the whole run of word characters on either side
ExponentOccurrences(s) ==
    {<<SubSeq(s, b, e - 1), SubSeq(s, e + 2, f - 1)>> :
        <<b, e, f>> \in
            {t \in (1..Len(s)) \X (1..Len(s)) \X (1..(Len(s) + 1)) :
                /\ t[1] < t[2]
                /\ t[2] + 2 < t[3]
                /\ s[t[2]] = "*"
                /\ s[t[2] + 1] = "*"
                /\ \A k \in t[1]..(t[2] - 1) : IsWord(s[k])
                /\ t[1] = 1 \/ ~IsWord(s[t[1] - 1])
                /\ t[3] = RunEnd(s, t[2] + 2, WordChars)}}

\* every "**" of the text stands between two word characters
EveryPowerIsAnOccurrence(s) ==
    \A e \in 1..(Len(s) - 1) :
        (s[e] = "*" /\ s[e + 1] = "*") =>
            /\ e > 1
            /\ IsWord(s[e - 1])
            /\ e + 2 <= Len(s)
            /\ IsWord(s[e + 2])

\* C15: for every base**exp of the text, base and exponent made of word
\* characters, the output of the math formatter holds base^{exp}, and it
\* holds no "**" when every "**" of the text was such an occurrence.
C15_EveryExponentRewritten ==
    (fmt_pc = "once" /\ fmt_kind = "math") =>
        /\ \A o \in ExponentOccurrences(fmt_input) :
               Contains(fmt_output, o[1] \o <<"^", "{">> \o o[2] \o <<"}">>)
        /\ EveryPowerIsAnOccurrence(fmt_input) =>
               ~Contains(fmt_output, <<"*", "*">>)

\* the fenced blocks code_pattern finds in a text, each as replace_code
\* writes it
RECURSIVE FencedBlocks(_, _)
FencedBlocks(s, language) ==
    IF s = <<>> THEN <<>>
    ELSE LET m == CodeMatch(s)
         IN  IF m[1] = 0 THEN FencedBlocks(Tail(s), language)
             ELSE <<replace_code(SubSeq(s, 4, m[1] - 1),
                                 SubSeq(s, m[1] + 1, m[2] - 1), language)>>
                      \o FencedBlocks(Drop(s, m[2] + 3), language)

\* C13: every fenced block of the text is, in the output of the code
\* formatter, still a fenced block with a language tag (its own, or the
\* default one) and with its content as it was: the inline rewrite leaves
\* fences and fenced content alone.
C13_FencedBlocksKept ==
    (fmt_pc = "once" /\ fmt_kind = "code") =>
        \A i \in 1..Len(FencedBlocks(fmt_input, DefaultLanguage)) :
            Contains(fmt_output, FencedBlocks(fmt_input, DefaultLanguage)[i])

-----------------------------------------------------------------------------
(* The web application around the service: login_required and the routes   *)
(* /api/ask-ai, /api/add and /api/replies (web_app_with_replies.py)        *)

\* str.strip(): leading and trailing whitespace removed
Strip(s) ==
    LET kept == {i \in 1..Len(s) : s[i] \notin SpaceChars}
    IN  IF kept = {} THEN <<>>
        ELSE SubSeq(s, CHOOSE i \in kept : \A j \in kept : i <= j,
                       CHOOSE i \in kept : \A j \in kept : j <= i)

\* the limits of create_user and the lifetime of a session, in days
MinUsernameLength == 3
MinPasswordLength == 6
SessionDays == 30

\* hash_password: the digest stored for a password, never the password
hash_password(password) == <<"pbkdf2">> \o password

\* verify_password
verify_password(password, password_hash) ==
    hash_password(password) = password_hash

RECURSIVE FirstClash_case_sensitive(_, _, _, _)
\* user.username == username, user.email == email
FirstClash_case_sensitive(users, i, username, email) ==
    IF i > Len(users) THEN None
    ELSE IF users[i].username = username THEN "Username already exists"
    ELSE IF users[i].email = email THEN "Email already exists"
    ELSE FirstClash_case_sensitive(users, i + 1, username, email)

RECURSIVE FirstClash(_, _, _, _)
\* the loop of create_user over the stored users, in dict order: the
\* message of the first ValueError it raises, None when it raises none
FirstClash(users, i, username, email) ==
    IF i > Len(users) THEN None
    ELSE IF Lower(users[i].username) = Lower(username)
    THEN "Username already exists"
    ELSE IF Lower(users[i].email) = Lower(email)
    THEN "Email already exists"
    ELSE FirstClash(users, i + 1, username, email)

\* the checks of create_user without that of the password
InvalidInput_password_unchecked(username, email, password) ==
    IF Len(username) < 3
    THEN "Username must be at least 3 characters"
    ELSE IF \A k \in 1..Len(email) : email[k] # "@"
    THEN "Invalid email format"
    ELSE None

\* the checks of create_user after the loop: the message of the ValueError
\* raised, None when there is none
InvalidInput(username, email, password) ==
    IF Len(username) < MinUsernameLength
    THEN "Username must be at least 3 characters"
    ELSE IF Len(password) < MinPasswordLength
    THEN "Password must be at least 6 characters"
    ELSE IF ~Contains(email, <<"@">>)
    THEN "Invalid email format"
    ELSE None

\* AuthDatabase.create_user: what the call returns or raises, and the store
\* as it leaves it.  str(uuid.uuid4()) is an id no stored user has.
create_user(db, username, email, password) ==
    LET clash == FirstClash(db.users, 1, username, email)
        invalid == InvalidInput(username, email, password)
        user_id == "u" \o ToString(Len(db.users) + 1)
        user == [id |-> user_id, username |-> username, email |-> email,
                 password_hash |-> hash_password(password),
                 last_login |-> <<>>, is_active |-> TRUE]
    IN  IF clash # None
        THEN [raised |-> TRUE, exc |-> "ValueError", message |-> clash,
              value |-> None, db |-> db]
        ELSE IF invalid # None
        THEN [raised |-> TRUE, exc |-> "ValueError", message |-> invalid,
              value |-> None, db |-> db]
        ELSE [raised |-> FALSE, exc |-> None, message |-> "",
              value |-> user_id,
              db |-> [db EXCEPT !.users = Append(@, user)]]

\* AuthDatabase.get_user_by_id: the id when a user is stored under it
get_user_by_id(db, user_id) ==
    IF \E i \in 1..Len(db.users) : db.users[i].id = user_id
    THEN user_id ELSE None

RECURSIVE FirstAuthenticated(_, _, _, _)
\* the loop of authenticate_user: the index of the first active user whose
\* username or email is the given name, ignoring case, and whose password
\* verifies; 0 when the loop ends without one
FirstAuthenticated(users, i, username, password) ==
    IF i > Len(users) THEN 0
    ELSE IF /\ \/ Lower(users[i].username) = Lower(username)
               \/ Lower(users[i].email) = Lower(username)
            /\ users[i].is_active
            /\ verify_password(password, users[i].password_hash)
    THEN i
    ELSE FirstAuthenticated(users, i + 1, username, password)

\* AuthDatabase.authenticate_user: the user found (None when there is none)
\* and the store with its last_login set
authenticate_user(db, username, password, clock) ==
    LET i == FirstAuthenticated(db.users, 1, username, password)
    IN  IF i = 0 THEN [user |-> None, db |-> db]
        ELSE [user |-> db.users[i].id,
              db |-> [db EXCEPT !.users[i].last_login = <<clock>>]]

\* AuthDatabase.create_session: secrets.token_urlsafe(32) is a token that
\* was never issued before; issued counts the tokens drawn
create_session(db, user_id, clock) ==
    LET session_id == "t" \o ToString(db.issued + 1)
        session == [session_id |-> session_id, user_id |-> user_id,
                    created_at |-> clock,
                    expires_at |-> clock + SessionDays,
                    is_active |-> TRUE]
    IN  [session_id |-> session_id,
         db |-> [db EXCEPT !.sessions = @ \cup {session},
                           !.issued = @ + 1]]

\* a delete_session that leaves the session in the map
delete_session_keeps(db, session_id) == db

\* AuthDatabase.delete_session
delete_session(db, session_id) ==
    [db EXCEPT !.sessions = {s \in @ : s.session_id # session_id}]

\* AuthDatabase.clean_expired_sessions
clean_expired_sessions(db, clock) ==
    [db EXCEPT !.sessions = {s \in @ : ~(clock > s.expires_at)}]

\* AuthDatabase.get_user_by_session: the user found (None when there is
\* none) and the store as the call leaves it.  A session is a record
\* [session_id, user_id, created_at, expires_at, is_active]; the session
\* map holds one session per id.
get_user_by_session(db, session_id, clock) ==
    LET found == {s \in db.sessions : s.session_id = session_id}
    IN  IF found = {} THEN [user |-> None, db |-> db]
        ELSE LET session == CHOOSE s \in found : TRUE
             IN  IF clock > session.expires_at
                 THEN [user |-> None, db |-> delete_session(db, session_id)]
                 ELSE IF ~session.is_active
                 THEN [user |-> None, db |-> db]
                 ELSE [user |-> get_user_by_id(db, session.user_id),
                       db |-> db]

\* a login_required that asks only whether the session map has the id
login_required_any_stored_session(db, cookie, clock) ==
    LET found == {s \in db.sessions : s.session_id = cookie}
    IN  IF found = {}
        THEN [status |-> 401, error |-> "Invalid or expired session",
              user |-> None, db |-> db]
        ELSE [status |-> 200, error |-> "",
              user |-> (CHOOSE s \in found : TRUE).user_id, db |-> db]

\* login_required, up to the call of the wrapped handler: the status is 401
\* when the handler is not called, and user is request.current_user
login_required(db, cookie, clock) ==
    IF cookie = None
    THEN [status |-> 401, error |-> "Authentication required",
          user |-> None, db |-> db]
    ELSE LET r == get_user_by_session(db, cookie, clock)
         IN  IF r.user = None
             THEN [status |-> 401, error |-> "Invalid or expired session",
                   user |-> None, db |-> r.db]
             ELSE [status |-> 200, error |-> "", user |-> r.user, db |-> r.db]

\* the session ids of a store
SessionIds(db) == {s.session_id : s \in db.sessions}

\* history: the session ids that have left the session map
Gone == auth_gone \cup (SessionIds(auth_db) \ SessionIds(auth_db'))

\* the answer a route leaves in app_last: the status and the error of the
\* response, whether the route's own code ran and for which current_user
Answer(route, cookie, status, error, user, ran, target, listed) ==
    /\ app_last' = [NoAnswer EXCEPT !.route = route,
                                    !.cookie = cookie, !.status = status,
                                    !.error = error, !.current_user = user,
                                    !.handler_ran = ran, !.target = target,
                                    !.listed = listed]
    /\ auth_gone' = Gone

\* the answer has been sent
AppReturn ==
    /\ app_last # NoAnswer
    /\ app_last' = NoAnswer
    /\ UNCHANGED <<auth_db, reply_db, now, auth_gone>>

AppOthersUnchanged ==
    UNCHANGED <<svcVars, genVars, gen_baseline, clsVars, retVars, fmtVars,
                askVars, concVars>>

AppReturnStep ==
    /\ AppReturn
    /\ AppOthersUnchanged

\* the keys of tools.get(category, {})
get_category_tools(category) ==
    CASE category = Math ->
             {"mathjax", "calculator", "graph_plotting", "formula_templates"}
      [] category = Science ->
             {"unit_converter", "periodic_table", "formula_templates"}
      [] category = Programming ->
             {"code_editor", "syntax_highlighting", "code_templates"}
      [] category = English ->
             {"dictionary", "grammar_checker", "translation"}
      [] OTHER -> {}

\* A plausible slip: the math branch taken for the science category too.
SelectFormatter_science_as_math(category) ==
    IF category \in {Math, Science} THEN "math"
    ELSE IF category = Programming THEN "code"
    ELSE "none"

\* the if / elif / else of ask_ai, lines 349-355
SelectFormatter(category) ==
    IF category = Math THEN "math"
    ELSE IF category = Programming THEN "code"
    ELSE "none"

\* formatted_answer
FormatAnswer(formatter, answer) ==
    IF formatter = "math" THEN format_math_answer(answer)
    ELSE IF formatter = "code" THEN format_code_answer(answer, DefaultLanguage)
    ELSE answer

ErrorResponse(status, error) == [status |-> status, body |-> [error |-> error]]

\* the jsonify of lines 360-370
SuccessResponse(question, formatted_answer, category, ai_response) ==
    [status |-> 200,
     body |-> [success |-> TRUE, question |-> question,
               answer |-> formatted_answer, category |-> category,
               confidence |-> ai_response.confidence,
               sources |-> ai_response.sources,
               reasoning |-> ai_response.reasoning,
               tools |-> get_category_tools(category),
               auto_classified |-> TRUE]]

\* A plausible slip: the handler saves the generated answer itself.
qa_db_after_ask_saves_answer(db, question, answer, category) ==
    [db EXCEPT !.data = add_qa(@, question, answer, category, <<>>)]

\* qa_db as ask_ai leaves it: lines 337-370 call classify_question_category,
\* search_relevant_qa and generate_ai_answer and never add_qa; saving is the
\* work of /api/save-ai-qa
qa_db_after_ask(db, question, answer, category) == db

\* A plausible slip: the context is searched without the category.
AskContext_any_category(db, question, category) ==
    search_relevant_qa(db, question, None)

\* context = rag_service.search_relevant_qa(question, category), line 344
AskContext(db, question, category) ==
    search_relevant_qa(db, question, category)

Respond(response) ==
    /\ ask_pc' = "responded"
    /\ ask_response' = response

\* POST /api/ask-ai with a session cookie and a JSON body, up to the first
\* suspension of generate_ai_answer (or to its return, when no provider is
\* configured).  data is [present, question]: a body that is missing or
\* holds no question has present = FALSE.
AskRequest(cookie, data) ==
    /\ app_last = NoAnswer
    /\ ask_pc = "idle"
    /\ LET auth == login_required(auth_db, cookie, now)
           question == Strip(data.question)
           category == classify_question_category(question)
           context == AskContext(qa_database, question, category)
       IN  /\ auth_db' = auth.db
           /\ ask_user' = auth.user
           /\ IF auth.status = 401
              THEN /\ Respond(ErrorResponse(401, auth.error))
                   /\ UNCHANGED <<ask_question, ask_category, ask_context,
                                  ask_stages, svcVars, genVars>>
              ELSE IF ~data.present \/ data.question = <<>>
              THEN /\ Respond(ErrorResponse(400, "Question is required"))
                   /\ UNCHANGED <<ask_question, ask_category, ask_context,
                                  ask_stages, svcVars, genVars>>
              ELSE IF question = <<>>
              THEN /\ Respond(ErrorResponse(400, "Question cannot be empty"))
                   /\ UNCHANGED <<ask_question, ask_category, ask_context,
                                  ask_stages, svcVars, genVars>>
              ELSE /\ ask_pc' = "generating"
                   /\ ask_question' = question
                   /\ ask_category' = category
                   /\ ask_context' = context.value
                   /\ ask_stages' = <<"classify", "retrieve", "generate">>
                   /\ GenerateStart(question, category, context.value)
                   /\ UNCHANGED ask_response
    /\ auth_gone' = Gone
    /\ UNCHANGED <<ask_formatters, reply_db, now, app_last>>

\* generate_ai_answer has returned or raised: lines 349-374
AskFinish ==
    /\ ask_pc = "generating"
    /\ gen_pc = "done"
    /\ IF gen_result.raised
       THEN /\ Respond(ErrorResponse(500, "Failed to generate AI answer"))
            /\ UNCHANGED <<ask_stages, ask_formatters, qa_database>>
       ELSE LET ai_response == gen_result.value
                formatter == SelectFormatter(ask_category)
                formatted_answer == FormatAnswer(formatter, ai_response.answer)
            IN  /\ Respond(SuccessResponse(ask_question, formatted_answer,
                                           ask_category, ai_response))
                /\ ask_stages' = Append(ask_stages, "format")
                /\ ask_formatters' =
                       IF formatter = "none" THEN ask_formatters
                       ELSE Append(ask_formatters, formatter)
                /\ qa_database' =
                       qa_db_after_ask(qa_database, ask_question,
                                       formatted_answer, ask_category)
    /\ UNCHANGED <<openai_api_key, claude_api_key, genVars, appVars, ask_user,
                   ask_question, ask_category, ask_context>>

\* The client has the response; the next request can come.
AskReturn ==
    /\ ask_pc = "responded"
    /\ ask_pc' = "idle"
    /\ ask_user' = None
    /\ ask_question' = <<>>
    /\ ask_category' = General
    /\ ask_context' = <<>>
    /\ ask_stages' = <<>>
    /\ ask_formatters' = <<>>
    /\ ask_response' = NoResponse
    /\ \/ gen_pc = "done" /\ GenerateReturn
       \/ gen_pc = "idle" /\ UNCHANGED <<svcVars, genVars>>
    /\ UNCHANGED appVars

\* the replies a run adds at most
MaxReplies == 2

\* POST /api/add (lines 299-320): login_required, the 400 answer, then
\* qa_db.add_qa
AddQARequest(cookie, entry) ==
    /\ app_last = NoAnswer
    /\ ask_pc = "idle"
    /\ Len(qa_database.data) < MaxStore
    /\ LET auth == login_required(auth_db, cookie, now)
           invalid == entry.question = <<>> \/ entry.answer = <<>>
       IN  /\ auth_db' = auth.db
           /\ qa_database' =
                  IF auth.status = 401 \/ invalid
                  THEN qa_database
                  ELSE [qa_database EXCEPT
                           !.data = add_qa(@, entry.question, entry.answer,
                                           entry.category, entry.tags)]
           /\ IF auth.status = 401
              THEN Answer("add_qa", cookie, 401, auth.error, None, FALSE,
                          0, <<>>)
              ELSE IF invalid
              THEN Answer("add_qa", cookie, 400,
                          "Question and answer required", auth.user, TRUE,
                          0, <<>>)
              ELSE Answer("add_qa", cookie, 200, "", auth.user, TRUE,
                          Len(qa_database.data) + 1, <<>>)
    /\ UNCHANGED <<openai_api_key, claude_api_key, genVars, reply_db, now,
                   askVars>>

\* the username of a stored user
UsernameOf(db, user_id) ==
    LET i == CHOOSE i \in 1..Len(db.users) : db.users[i].id = user_id
    IN  db.users[i].username

\* ReplyDatabase.add_reply: the new reply, under an id no reply has
add_reply(db, qa_id, user_id, username, content, clock) ==
    [db EXCEPT !.replies =
        Append(@, [id |-> Len(@) + 1, qa_id |-> qa_id, user_id |-> user_id,
                   username |-> username, content |-> content,
                   created_at |-> clock, updated_at |-> clock,
                   is_helpful |-> FALSE, helpful_votes |-> 0,
                   is_deleted |-> FALSE])]

\* whether qa_id is a key of qa_db.data
QAExists(qa_id) ==
    \E i \in 1..Len(qa_database.data) : qa_database.data[i].id = qa_id

\* POST /api/replies (lines 431-466): login_required, the 400 and 404
\* answers, then reply_db.add_reply
AddReplyRequest(cookie, qa_id, content) ==
    /\ app_last = NoAnswer
    /\ ask_pc = "idle"
    /\ Len(reply_db.replies) < MaxReplies
    /\ LET auth == login_required(auth_db, cookie, now)
           stripped == Strip(content)
       IN  /\ auth_db' = auth.db
           /\ IF auth.status = 401
              THEN /\ Answer("add_reply", cookie, 401, auth.error, None,
                             FALSE, 0, <<>>)
                   /\ reply_db' = reply_db
              ELSE IF content = <<>>
              THEN /\ Answer("add_reply", cookie, 400,
                             "QA ID and content are required", auth.user,
                             TRUE, 0, <<>>)
                   /\ reply_db' = reply_db
              ELSE IF stripped = <<>>
              THEN /\ Answer("add_reply", cookie, 400,
                             "Reply content cannot be empty", auth.user,
                             TRUE, 0, <<>>)
                   /\ reply_db' = reply_db
              ELSE IF ~QAExists(qa_id)
              THEN /\ Answer("add_reply", cookie, 404, "Q&A pair not found",
                             auth.user, TRUE, 0, <<>>)
                   /\ reply_db' = reply_db
              ELSE /\ Answer("add_reply", cookie, 200, "", auth.user, TRUE,
                             Len(reply_db.replies) + 1, <<>>)
                   /\ reply_db' =
                          add_reply(reply_db, qa_id, auth.user,
                                    UsernameOf(auth.db, auth.user), stripped,
                                    now)
    /\ UNCHANGED <<svcVars, genVars, now, askVars>>

-----------------------------------------------------------------------------
(* AskSpec: requests to /api/ask-ai, /api/add and /api/replies, one at a    *)
(* time, against a store that holds entries                                *)

AskEntries ==
    << [question |-> <<"su", "hak", " ", "x", "=", "1">>, answer |-> <<"a">>,
        category |-> Math, tags |-> <<>>],
       [question |-> <<"su", "hak">>, answer |-> <<"b">>,
        category |-> "general", tags |-> <<>>],
       [question |-> <<"ko", "ding", " ", Backtick, "x", Backtick>>,
        answer |-> <<"c">>, category |-> Programming, tags |-> <<>>] >>

RECURSIVE StoreOf(_)
\* the store after add_qa of each entry in turn
StoreOf(entries) ==
    IF entries = <<>> THEN <<>>
    ELSE LET e == entries[Len(entries)]
         IN  add_qa(StoreOf(SubSeq(entries, 1, Len(entries) - 1)),
                    e.question, e.answer, e.category, e.tags)

AskAddPool ==
    { [question |-> <<"gwa", "hak", " ", "x", "=", "1">>, answer |-> <<"d">>,
       category |-> Science, tags |-> <<>>],
      [question |-> <<"gwa", "hak">>, answer |-> <<>>,
       category |-> Science, tags |-> <<>>] }

\* a user as create_user stores it
StoredUser(n, username, email, password) ==
    [id |-> "u" \o ToString(n), username |-> username, email |-> email,
     password_hash |-> hash_password(password), last_login |-> <<>>,
     is_active |-> TRUE]

\* a session that create_session made for the user at the given instant
StoredSession(session_id, user_id, created_at) ==
    [session_id |-> session_id, user_id |-> user_id,
     created_at |-> created_at, expires_at |-> created_at + SessionDays,
     is_active |-> TRUE]

AskUsers ==
    << StoredUser(1, <<"b", "o", "b">>, <<"b", "@", "x">>,
                  <<"s", "e", "c", "r", "e", "t">>) >>

\* the instant of the requests: s1 is one day old, s2 one day past its end
AskNow == SessionDays + 1

AskSessions ==
    { StoredSession("s1", "u1", SessionDays),
      StoredSession("s2", "u1", 0) }

AskCookies == {None, "s1", "s2"}

AskData ==
    { [present |-> FALSE, question |-> <<>>],
      [present |-> TRUE, question |-> <<" ">>],
      [present |-> TRUE, question |-> <<" ", "su", "hak", " ">>],
      [present |-> TRUE, question |-> <<"ko", "ding">>],
      [present |-> TRUE, question |-> <<"gwa", "hak">>],
      [present |-> TRUE, question |-> <<"Q", "?">>] }

AskContents == {<<"x", "=", "1">>, <<Backtick, "x", Backtick>>}

AskInit ==
    /\ qa_database = [attached |-> TRUE, data |-> StoreOf(AskEntries)]
    /\ openai_api_key \in BOOLEAN
    /\ claude_api_key \in BOOLEAN
    /\ GenIdle
    /\ gen_baseline = NoBaseline
    /\ ClsIdle
    /\ RetIdle
    /\ FmtIdle
    /\ auth_db = [users |-> AskUsers, sessions |-> AskSessions, issued |-> 0]
    /\ reply_db = [replies |-> <<>>]
    /\ now = AskNow
    /\ app_last = NoAnswer
    /\ auth_gone = {}
    /\ AskIdle
    /\ ConcIdle

AskOthersUnchanged ==
    UNCHANGED <<gen_baseline, clsVars, retVars, fmtVars, concVars>>

AskRequestStep ==
    /\ \E cookie \in AskCookies, data \in AskData : AskRequest(cookie, data)
    /\ AskOthersUnchanged

AskOpenAIStep ==
    /\ ask_pc = "generating"
    /\ \E o \in ProviderOutcomes, a \in AskContents : OpenAIReturns(o, a)
    /\ UNCHANGED <<appVars, askVars>>
    /\ AskOthersUnchanged

AskClaudeStep ==
    /\ ask_pc = "generating"
    /\ \E o \in ProviderOutcomes, a \in AskContents : ClaudeReturns(o, a)
    /\ UNCHANGED <<appVars, askVars>>
    /\ AskOthersUnchanged

AskFinishStep ==
    /\ AskFinish
    /\ AskOthersUnchanged

AskReturnStep ==
    /\ AskReturn
    /\ AskOthersUnchanged

AddQARequestStep ==
    /\ \E cookie \in AskCookies, e \in AskAddPool : AddQARequest(cookie, e)
    /\ AskOthersUnchanged

AddReplyRequestStep ==
    /\ \E cookie \in AskCookies, qa_id \in {1, MaxStore + 1},
          content \in {<<"r", " ">>, <<" ">>} :
           AddReplyRequest(cookie, qa_id, content)
    /\ AskOthersUnchanged

AskNext ==
    \/ AskRequestStep
    \/ AskOpenAIStep
    \/ AskClaudeStep
    \/ AskFinishStep
    \/ AskReturnStep
    \/ AddQARequestStep
    \/ AddReplyRequestStep
    \/ AppReturnStep

AskSpec == AskInit /\ [][AskNext]_vars

-----------------------------------------------------------------------------
(* Claims about the ask pipeline *)

AskSucceeded == ask_pc = "responded" /\ ask_response.status = 200

\* C14: the math formatter is applied exactly when the classified category
\* is Math, the code formatter exactly when it is Programming, never more
\* than one of them, and for every other category the answer returned is
\* the generator's answer as it is.
C14_OnlyTheMatchingFormatter ==
    AskSucceeded =>
        LET generated == gen_result.value.answer
            returned == ask_response.body.answer
        IN  /\ Len(ask_formatters) <= 1
            /\ "math" \in Range(ask_formatters) <=> ask_category = Math
            /\ "code" \in Range(ask_formatters) <=> ask_category = Programming
            /\ ask_category = Math => returned = format_math_answer(generated)
            /\ ask_category = Programming =>
                   returned = format_code_answer(generated, DefaultLanguage)
            /\ ask_category \notin {Math, Programming} => returned = generated

\* a Math answer the formatter has changed
C14_Witness ==
    /\ AskSucceeded
    /\ ask_category = Math
    /\ ask_formatters = <<"math">>
    /\ gen_result.value.answer = <<"x", "=", "1">>
    /\ ask_response.body.answer = <<"$", "x", "=", "1", "$">>

AskStageOrder == <<"classify", "retrieve", "generate", "format">>

\* C19: the stages run in the order classify, retrieve, generate, format,
\* each once and each fed by the one before: retriever and generator get
\* the classifier's category, the generator gets the retriever's context,
\* the formatter gets the generator's answer and the response reports the
\* classifier's category; so a question without keyword, no provider being
\* configured, gives General, confidence 0.6 and the template reasoning.
C19_StagesInOrderEachFedByThePrevious ==
    /\ ask_stages = SubSeq(AskStageOrder, 1, Len(ask_stages))
    /\ ask_pc = "generating" => Len(ask_stages) = 3
    /\ AskSucceeded => ask_stages = AskStageOrder
    /\ Len(ask_stages) >= 3 =>
           /\ ask_category = classify_question_category(ask_question)
           /\ ask_context =
                  search_relevant_qa(qa_database, ask_question,
                                     ask_category).value
           /\ gen_question = ask_question
           /\ gen_category = ask_category
           /\ gen_context = ask_context
    /\ AskSucceeded =>
           /\ ask_response.body.answer =
                  FormatAnswer(SelectFormatter(ask_category),
                               gen_result.value.answer)
           /\ ask_response.body.category = ask_category
           /\ ask_response.body.confidence = gen_result.value.confidence
           /\ ask_response.body.reasoning = gen_result.value.reasoning
           /\ ask_response.body.sources = BuildSources(ask_context)
           /\ (/\ ~openai_api_key
               /\ ~claude_api_key
               /\ MatchingRanks(ask_question) = {}) =>
                  /\ ask_response.body.category = General
                  /\ ask_response.body.confidence = FallbackConfidence
                  /\ ask_response.body.reasoning = FallbackReasoning

\* the scenario: no keyword, no provider
C19_Witness ==
    /\ AskSucceeded
    /\ ~openai_api_key
    /\ ~claude_api_key
    /\ ask_question = <<"Q", "?">>
    /\ ask_stages = AskStageOrder
    /\ ask_response.body.category = General
    /\ ask_response.body.confidence = FallbackConfidence

\* C17: a step of the pipeline (from the start of classify to the end of
\* format) leaves the Q&A store, the user and session store and the reply
\* store as they were.
C17_PipelineWritesNoStore ==
    [][(ask_pc = "generating" \/ ask_pc' = "generating") =>
           /\ qa_database' = qa_database
           /\ auth_db' = auth_db
           /\ reply_db' = reply_db]_vars

\* a pipeline that has read the store and ended, in a run where each of the
\* three stores was written by other requests
C17_Witness ==
    /\ AskSucceeded
    /\ ask_context # <<>>
    /\ Len(qa_database.data) > Len(AskEntries)
    /\ auth_db.sessions # AskSessions
    /\ reply_db.replies # <<>>

\* the provider call of the request ended in a timeout
ProviderTimedOut ==
    /\ gen_pc = "done"
    /\ gen_calls[1] \in Providers
    /\ gen_outcomes[1] = "timeout"

\* C16: a request whose provider call times out goes on to the next link of
\* the chain and ends with the response the same request got when the
\* provider failed with an error status.
C16_TimeoutHandledLikeStatusFailure ==
    ProviderTimedOut =>
        /\ Len(gen_calls) > 1
        /\ gen_calls[2] \in {"claude", "fallback"}
        /\ ~gen_result.raised
        /\ SameRequestAsBaseline => gen_result.value = gen_baseline.response

\* a request with context whose provider failed with a status is asked
\* again and the provider times out
C16_Witness ==
    /\ ProviderTimedOut
    /\ SameRequestAsBaseline
    /\ Len(gen_context) > 1
    /\ ~gen_result.raised
    /\ gen_result.value = gen_baseline.response

-----------------------------------------------------------------------------
(* ConcSpec: two /api/ask-ai requests of logged-in users in flight on the   *)
(* one rag_service; question, category, context, sources and ai_response   *)
(* are local variables of each call, the store and the keys are shared     *)

\* A plausible slip: sources kept as an attribute of the shared service,
\* so a call reads what the call that started last has written.
RequestSources_on_service(requests, r, last) == requests[last].sources

\* sources as a call reads it: its own local list (ai_service.py:74)
RequestSources(requests, r, last) == requests[r].sources

\* what the try block of generate_ai_answer gives for the result of its one
\* call: the template answer when the call raised and line 96 caught it
AfterTry(result, question, category, sources) ==
    IF result.raised /\ CaughtByExcept(result.exc)
    THEN _generate_fallback_answer(question, category, sources)
    ELSE result

\* lines 349-374 for the generator's result
AskResponse(question, category, result) ==
    IF result.raised
    THEN ErrorResponse(500, "Failed to generate AI answer")
    ELSE SuccessResponse(question,
                         FormatAnswer(SelectFormatter(category),
                                      result.value.answer),
                         category, result.value)

\* a step of request r: every other request in flight has been interleaved
Interleaved(requests, r) ==
    [o \in Requests |->
        IF o # r /\ requests[o].pc \in {"await_openai", "await_claude"}
        THEN [requests[o] EXCEPT !.alone = FALSE]
        ELSE requests[o]]

\* ask_ai of request r up to the suspension in client.post, or to its end
\* when no provider is configured
ConcStart(r, data) ==
    /\ conc_req[r].pc = "idle"
    /\ data.present
    /\ Strip(data.question) # <<>>
    /\ LET question == Strip(data.question)
           category == classify_question_category(question)
           context == AskContext(qa_database, question, category).value
           sources == BuildSources(context)
           link == SelectLink(openai_api_key, claude_api_key)
           started == [IdleRequest EXCEPT
                          !.question = question, !.category = category,
                          !.context = context, !.sources = sources,
                          !.alone = \A o \in Requests \ {r} :
                                        conc_req[o].pc \in {"idle", "responded"}]
           requests == [Interleaved(conc_req, r) EXCEPT ![r] = started]
       IN  conc_req' =
               IF link = "fallback"
               THEN [requests EXCEPT
                        ![r].pc = "responded",
                        ![r].response =
                            AskResponse(question, category,
                                _generate_fallback_answer(question, category,
                                    RequestSources(requests, r, r)))]
               ELSE [requests EXCEPT ![r].pc = AwaitPc(link)]
    /\ conc_last' = r
    /\ UNCHANGED conc_solo

\* client.post of request r ends; the call returns or raises, lines 96-98
\* handle the raise, and ask_ai formats and answers
ConcProviderReturns(r, outcome, content) ==
    /\ conc_req[r].pc \in {"await_openai", "await_claude"}
    /\ LET loc == conc_req[r]
           sources == RequestSources(conc_req, r, conc_last)
           result ==
               IF loc.pc = "await_openai"
               THEN _call_openai(outcome, content, loc.category, sources)
               ELSE _call_claude(outcome, content, loc.category, sources)
           final == AfterTry(result, loc.question, loc.category, sources)
       IN  conc_req' =
               [Interleaved(conc_req, r) EXCEPT
                   ![r].pc = "responded",
                   ![r].outcome = outcome,
                   ![r].content = content,
                   ![r].response =
                       AskResponse(loc.question, loc.category, final)]
    /\ UNCHANGED <<conc_last, conc_solo>>

\* The client of request r has the response.
ConcReturn(r) ==
    /\ conc_req[r].pc = "responded"
    /\ conc_req' = [conc_req EXCEPT ![r] = IdleRequest]
    /\ conc_solo' =
           IF conc_req[r].alone
           THEN [recorded |-> TRUE, question |-> conc_req[r].question,
                 outcome |-> conc_req[r].outcome,
                 content |-> conc_req[r].content,
                 response |-> conc_req[r].response]
           ELSE conc_solo
    /\ UNCHANGED conc_last

ConcData ==
    { [present |-> TRUE, question |-> <<" ", "su", "hak", " ">>],
      [present |-> TRUE, question |-> <<"ko", "ding">>] }

\* a reply of a provider: the outcome and, for a well-formed body, its content
ConcReplies ==
    ({"ok"} \X AskContents) \cup ((ProviderOutcomes \ {"ok"}) \X {<<>>})

ConcInit ==
    /\ qa_database = [attached |-> TRUE, data |-> StoreOf(AskEntries)]
    /\ openai_api_key \in BOOLEAN
    /\ claude_api_key \in BOOLEAN
    /\ GenIdle
    /\ gen_baseline = NoBaseline
    /\ ClsIdle
    /\ RetIdle
    /\ FmtIdle
    /\ AppIdle
    /\ AskIdle
    /\ ConcIdle

ConcOthersUnchanged ==
    UNCHANGED <<svcVars, genVars, gen_baseline, clsVars, retVars, fmtVars,
                appVars, askVars>>

ConcStartStep ==
    /\ \E r \in Requests, data \in ConcData : ConcStart(r, data)
    /\ ConcOthersUnchanged

ConcProviderStep ==
    /\ \E r \in Requests, reply \in ConcReplies :
           ConcProviderReturns(r, reply[1], reply[2])
    /\ ConcOthersUnchanged

ConcReturnStep ==
    /\ \E r \in Requests : ConcReturn(r)
    /\ ConcOthersUnchanged

ConcNext == ConcStartStep \/ ConcProviderStep \/ ConcReturnStep

ConcSpec == ConcInit /\ [][ConcNext]_vars

\* the request has the inputs of the remembered request that ran alone
SameRequestAsSolo(r) ==
    /\ conc_solo.recorded
    /\ conc_solo.question = conc_req[r].question
    /\ conc_solo.outcome = conc_req[r].outcome
    /\ conc_solo.content = conc_req[r].content

\* what a request keeps for itself, the history flag left out
Locals(loc) == [loc EXCEPT !.alone = TRUE]

\* C18: under every interleaving of two requests on the shared service, the
\* store being fixed, the response of a request is the one the same request
\* got when it ran alone; a step changes the local variables of one request
\* only and never the store or the keys.
C18_ConcurrentRequestsIndependent ==
    /\ [](\A r \in Requests :
              (conc_req[r].pc = "responded" /\ SameRequestAsSolo(r)) =>
                  conc_req[r].response = conc_solo.response)
    /\ [][/\ qa_database' = qa_database
          /\ openai_api_key' = openai_api_key
          /\ claude_api_key' = claude_api_key
          /\ \A r, o \in Requests :
                 (r # o /\ Locals(conc_req'[r]) # Locals(conc_req[r])) =>
                     Locals(conc_req'[o]) = Locals(conc_req[o])]_vars

\* a request that was overtaken by another one with other sources, and whose
\* provider then failed, answers as it did alone
C18_Witness ==
    /\ conc_req["r1"].pc = "responded"
    /\ ~conc_req["r1"].alone
    /\ conc_req["r1"].outcome = "timeout"
    /\ SameRequestAsSolo("r1")
    /\ conc_req["r2"].pc \in {"await_openai", "await_claude"}
    /\ conc_req["r2"].sources # conc_req["r1"].sources
    /\ conc_last = "r2"
    /\ conc_req["r1"].response = conc_solo.response

-----------------------------------------------------------------------------
(* Further claims about generate_ai_answer *)

\* C21: the sources of every response, from a provider or from the
\* template, are the questions of the context items handed to
\* generate_ai_answer, in their order and all of them, and there are none
\* when the context is empty.
C21_SourcesAreTheContextQuestions ==
    (gen_pc = "done" /\ ~gen_result.raised) =>
        /\ Len(gen_result.value.sources) = Len(gen_context)
        /\ \A i \in 1..Len(gen_context) :
               gen_result.value.sources[i] = gen_context[i].question
        /\ gen_context = <<>> => gen_result.value.sources = <<>>

\* a provider answer to a request with more than three context items
C21_Witness ==
    /\ gen_pc = "done"
    /\ gen_calls = <<"claude">>
    /\ gen_outcomes = <<"ok">>
    /\ Len(gen_context) = 4
    /\ gen_context[4].question # gen_context[1].question
    /\ Len(gen_result.value.sources) = 4

\* the template each category is to select
TemplateFor(category) ==
    IF category = Math THEN <<"[math template]">>
    ELSE IF category = Science THEN <<"[science template]">>
    ELSE IF category = Programming THEN <<"[programming template]">>
    ELSE <<"[general template]">>

\* C22: the template answer is fixed by the category and the sources: Math,
\* Science, Programming and General have a template each, every other
\* label (Korean, English, an unknown one) gets the General template, and
\* the response still carries the category that was asked for.
C22_TemplateByCategory ==
    (/\ gen_pc = "done"
     /\ gen_calls[Len(gen_calls)] = "fallback"
     /\ ~gen_result.raised) =>
        LET v == gen_result.value
            footer ==
                IF v.sources = <<>> THEN <<>>
                ELSE FooterHeader
                         \o FooterList(gen_context, 1, Min(3, Len(gen_context)))
        IN  /\ v.answer = TemplateFor(gen_category) \o footer
            /\ v.category = gen_category

\* the General template for a Korean question, after a provider failed
C22_Witness ==
    /\ gen_pc = "done"
    /\ gen_calls = <<"openai", "fallback">>
    /\ gen_category = Korean
    /\ gen_result.value.category = Korean
    /\ gen_result.value.answer[1] = "[general template]"
    /\ Len(gen_context) = 2

-----------------------------------------------------------------------------
(* A further claim about search_relevant_qa *)

\* C23: every context item search_relevant_qa returns for a category that
\* is not None carries that category, ignoring case, and holds the whole
\* question, ignoring case, in its question, its answer or one of its tags;
\* an entry stored under another label is never part of the context.
C23_ContextHasTheCategoryAndTheQuestion ==
    (ret_pc = "done" /\ ret_category # None) =>
        \A i \in 1..Len(ret_result.value) :
            LET item == ret_result.value[i]
            IN  /\ LowerLabel(item.category) = LowerLabel(ret_category)
                /\ \/ OccursIgnoringCase(ret_question, item.question)
                   \/ OccursIgnoringCase(ret_question, item.answer)
                   \/ \E t \in 1..Len(item.tags) :
                          OccursIgnoringCase(ret_question, item.tags[t])

\* a Math search that leaves out an entry which holds the question but is
\* stored under the label "general"
C23_Witness ==
    /\ ret_pc = "done"
    /\ ret_category = Math
    /\ ret_question = <<"su", "hak">>
    /\ \E i \in 1..Len(qa_database.data) :
           /\ qa_database.data[i].category = "general"
           /\ OccursIgnoringCase(ret_question, qa_database.data[i].answer)
    /\ Len(ret_result.value) = 1
    /\ ret_result.value[1].category = Math

-----------------------------------------------------------------------------
(* The account routes /api/register, /api/login, /api/logout and /api/me   *)
(* (web_app_with_replies.py) over AuthDatabase (auth_models.py)            *)

\* the session tokens a run draws at most
MaxSessions == 2

\* app_last at the start of a call of the route
Called(route, cookie, input) ==
    [NoAnswer EXCEPT !.route = route, !.cookie = cookie, !.input = input]

\* a call of auth_db.create_user
CreateUserCall(username, email, password) ==
    /\ app_last = NoAnswer
    /\ LET r == create_user(auth_db, username, email, password)
           call == Called("create_user", None, <<username, email, password>>)
       IN  /\ auth_db' = r.db
           /\ app_last' = [call EXCEPT !.exc = r.exc, !.error = r.message,
                                       !.created = r.value]
    /\ auth_gone' = Gone
    /\ UNCHANGED <<reply_db, now>>

\* POST /api/register (lines 76-114).  data is [present, username, email,
\* password]; a body that is missing has present = FALSE, a key that is
\* missing holds the empty text.
RegisterRequest(data) ==
    /\ app_last = NoAnswer
    /\ auth_db.issued < MaxSessions
    /\ LET username == Strip(data.username)
           email == Strip(data.email)
           password == data.password
           r == create_user(auth_db, username, email, password)
           s == create_session(r.db, r.value, now)
           call == Called("register", None,
                          <<data.username, data.email, data.password>>)
       IN  IF ~data.present
           THEN /\ auth_db' = auth_db
                /\ app_last' = [call EXCEPT !.status = 400,
                                            !.error = "No data provided"]
           ELSE IF username = <<>> \/ email = <<>> \/ password = <<>>
           THEN /\ auth_db' = auth_db
                /\ app_last' =
                       [call EXCEPT
                           !.status = 400,
                           !.error =
                               "Username, email, and password are required"]
           ELSE IF r.raised
           THEN /\ auth_db' = r.db
                /\ app_last' = [call EXCEPT !.status = 400,
                                            !.error = r.message,
                                            !.exc = r.exc]
           ELSE /\ auth_db' = s.db
                /\ app_last' = [call EXCEPT !.status = 200,
                                            !.created = r.value,
                                            !.set_cookie = s.session_id]
    /\ auth_gone' = Gone
    /\ UNCHANGED <<reply_db, now>>

\* POST /api/login (lines 117-154).  data is [present, username, password].
LoginRequest(data) ==
    /\ app_last = NoAnswer
    /\ auth_db.issued < MaxSessions
    /\ LET username == Strip(data.username)
           password == data.password
           a == authenticate_user(auth_db, username, password, now)
           s == create_session(a.db, a.user, now)
           call == Called("login", None, <<data.username, data.password>>)
       IN  IF ~data.present
           THEN /\ auth_db' = auth_db
                /\ app_last' = [call EXCEPT !.status = 400,
                                            !.error = "No data provided"]
           ELSE IF username = <<>> \/ password = <<>>
           THEN /\ auth_db' = auth_db
                /\ app_last' =
                       [call EXCEPT
                           !.status = 400,
                           !.error = "Username and password are required"]
           ELSE IF a.user = None
           THEN /\ auth_db' = a.db
                /\ app_last' = [call EXCEPT !.status = 401,
                                            !.error = "Invalid credentials"]
           ELSE /\ auth_db' = s.db
                /\ app_last' = [call EXCEPT !.status = 200,
                                            !.current_user = a.user,
                                            !.set_cookie = s.session_id]
    /\ auth_gone' = Gone
    /\ UNCHANGED <<reply_db, now>>

\* POST /api/logout (lines 157-166): the cookie is cleared in the answer
LogoutRequest(cookie) ==
    /\ app_last = NoAnswer
    /\ auth_db' = IF cookie # None THEN delete_session(auth_db, cookie)
                  ELSE auth_db
    /\ app_last' = [Called("logout", cookie, <<>>) EXCEPT !.status = 200,
                                                          !.set_cookie = ""]
    /\ auth_gone' = Gone
    /\ UNCHANGED <<reply_db, now>>

\* GET /api/me (lines 169-189): current_user is the user of the answer, None
\* when the answer says authenticated: False
MeRequest(cookie) ==
    /\ app_last = NoAnswer
    /\ LET r == IF cookie = None THEN [user |-> None, db |-> auth_db]
                ELSE get_user_by_session(auth_db, cookie, now)
       IN  /\ auth_db' = r.db
           /\ app_last' = [Called("me", cookie, <<>>) EXCEPT
                              !.status = 200, !.current_user = r.user]
    /\ auth_gone' = Gone
    /\ UNCHANGED <<reply_db, now>>

\* AuthDatabase() constructed again over the files it saved: load_data
\* (lines 46-71) ends with clean_expired_sessions
LoadData ==
    /\ app_last = NoAnswer
    /\ auth_db' = clean_expired_sessions(auth_db, now)
    /\ auth_gone' = Gone
    /\ UNCHANGED <<reply_db, now, app_last>>

\* the instants of a run, in days
Instants == {0, SessionDays, SessionDays + 1}

\* time passes
Tick ==
    /\ app_last = NoAnswer
    /\ \E t \in Instants : t > now /\ now' = t
    /\ UNCHANGED <<auth_db, reply_db, app_last, auth_gone>>

-----------------------------------------------------------------------------
(* AccountSpec: create_user, /api/register and /api/login from an empty    *)
(* user map                                                                *)

Bob == <<"b", "o", "b">>
BobUpper == <<"B", "O", "B">>
Ann == <<"a", "n", "n">>
BobMail == <<"b", "@", "x">>
BobMailUpper == <<"B", "@", "X">>
AnnMail == <<"a", "@", "x">>
Secret == <<"s", "e", "c", "r", "e", "t">>

AccountUsernames == {Bob, BobUpper, Ann, <<"a", "l">>}
AccountEmails == {BobMail, BobMailUpper, AnnMail, <<"a", "x">>}
AccountPasswords == {Secret, <<"p", "w">>}

RegisterData ==
    { [present |-> FALSE, username |-> <<>>, email |-> <<>>,
       password |-> <<>>],
      [present |-> TRUE, username |-> <<" ">>, email |-> BobMail,
       password |-> Secret],
      [present |-> TRUE, username |-> <<" ">> \o Bob, email |-> BobMail,
       password |-> Secret],
      [present |-> TRUE, username |-> BobUpper, email |-> AnnMail,
       password |-> Secret],
      [present |-> TRUE, username |-> Ann, email |-> BobMailUpper,
       password |-> Secret],
      [present |-> TRUE, username |-> Ann, email |-> AnnMail,
       password |-> <<"p", "w">>],
      [present |-> TRUE, username |-> Ann, email |-> AnnMail,
       password |-> Secret] }

LoginData ==
    { [present |-> FALSE, username |-> <<>>, password |-> <<>>],
      [present |-> TRUE, username |-> Bob, password |-> <<>>],
      [present |-> TRUE, username |-> BobUpper, password |-> Secret],
      [present |-> TRUE, username |-> BobMail, password |-> Secret],
      [present |-> TRUE, username |-> Ann, password |-> <<"p", "w">>] }

AccountInit ==
    /\ qa_database = [attached |-> TRUE, data |-> StoreOf(AskEntries)]
    /\ openai_api_key = FALSE
    /\ claude_api_key = FALSE
    /\ GenIdle
    /\ gen_baseline = NoBaseline
    /\ ClsIdle
    /\ RetIdle
    /\ ExtIdle

CreateUserCallStep ==
    /\ \E username \in AccountUsernames, email \in AccountEmails,
          password \in AccountPasswords :
           CreateUserCall(username, email, password)
    /\ AppOthersUnchanged

RegisterRequestStep ==
    /\ \E data \in RegisterData : RegisterRequest(data)
    /\ AppOthersUnchanged

LoginRequestStep ==
    /\ \E data \in LoginData : LoginRequest(data)
    /\ AppOthersUnchanged

AccountNext ==
    \/ CreateUserCallStep
    \/ RegisterRequestStep
    \/ LoginRequestStep
    \/ AppReturnStep

AccountSpec == AccountInit /\ [][AccountNext]_vars

-----------------------------------------------------------------------------
(* Claims about the accounts *)

\* C24: whatever create_user calls were made, no two stored users have
\* usernames equal ignoring case, no two have emails equal ignoring case,
\* and every stored user has a username of at least 3 characters and an
\* email that contains the at sign.
C24_StoredUsersDistinctAndValid ==
    \A i \in 1..Len(auth_db.users) :
        /\ Len(auth_db.users[i].username) >= 3
        /\ \E k \in 1..Len(auth_db.users[i].email) :
               auth_db.users[i].email[k] = "@"
        /\ \A j \in 1..Len(auth_db.users) :
               i # j =>
                   /\ Lower(auth_db.users[i].username)
                          # Lower(auth_db.users[j].username)
                   /\ Lower(auth_db.users[i].email)
                          # Lower(auth_db.users[j].email)

\* two users are stored, and a create_user call for the first one's name in
\* capitals with an unused email has just been turned down
C24_Witness ==
    /\ Len(auth_db.users) = 2
    /\ auth_db.users[1].username = Bob
    /\ app_last.route = "create_user"
    /\ app_last.input = <<BobUpper, <<"a", "x">>, Secret>>
    /\ app_last.exc = "ValueError"

\* the step answers a call
Answered == app_last = NoAnswer /\ app_last' # NoAnswer

\* what the claim calls a rejected call: a stored user has the username or
\* the email ignoring case, the username has fewer than 3 characters, the
\* password fewer than 6, or the email holds no at sign
Rejectable(db, username, email, password) ==
    \/ \E i \in 1..Len(db.users) :
           \/ Lower(db.users[i].username) = Lower(username)
           \/ Lower(db.users[i].email) = Lower(email)
    \/ Len(username) < 3
    \/ Len(password) < 6
    \/ \A k \in 1..Len(email) : email[k] # "@"

\* C25: a create_user call that is to be rejected raises ValueError and
\* leaves the users and the sessions as they were; a register request whose
\* create_user call is to be rejected is answered 400, sets no session
\* cookie and leaves the users and the sessions as they were.
C25_RejectedCreateUserChangesNothing ==
    [][Answered =>
           /\ ( /\ app_last'.route = "create_user"
                /\ Rejectable(auth_db, app_last'.input[1],
                              app_last'.input[2], app_last'.input[3]) )
              => /\ app_last'.exc = "ValueError"
                 /\ auth_db'.users = auth_db.users
                 /\ auth_db'.sessions = auth_db.sessions
           /\ ( /\ app_last'.route = "register"
                /\ Rejectable(auth_db, Strip(app_last'.input[1]),
                              Strip(app_last'.input[2]),
                              app_last'.input[3]) )
              => /\ app_last'.status = 400
                 /\ app_last'.set_cookie = None
                 /\ auth_db'.users = auth_db.users
                 /\ auth_db'.sessions = auth_db.sessions]_vars

\* a register request with the email of a stored user in capitals has been
\* answered 400 for the ValueError of create_user, in a run that stored a
\* user and made a session before
C25_Witness ==
    /\ app_last.route = "register"
    /\ app_last.input = <<Ann, BobMailUpper, Secret>>
    /\ app_last.status = 400
    /\ app_last.exc = "ValueError"
    /\ app_last.error = "Email already exists"
    /\ Len(auth_db.users) = 1
    /\ auth_db.users[1].email = BobMail
    /\ Cardinality(auth_db.sessions) = 1

-----------------------------------------------------------------------------
(* SessionSpec: /api/login, /api/logout and /api/me as time passes, over   *)
(* two stored users and the sessions a sessions file held                  *)

SessionUsers ==
    << StoredUser(1, Bob, BobMail, Secret),
       StoredUser(2, Ann, AnnMail, Secret) >>

\* the sessions loaded from the file: one that is not active, and one of a
\* user that is not stored
LoadedSessions ==
    { [StoredSession("s0", "u1", 0) EXCEPT !.is_active = FALSE],
      StoredSession("s9", "u9", 0) }

SessionCookies == {None, "s0", "s9", "t1", "t2", "t3"}

SessionInit ==
    /\ qa_database = [attached |-> TRUE, data |-> StoreOf(AskEntries)]
    /\ openai_api_key = FALSE
    /\ claude_api_key = FALSE
    /\ GenIdle
    /\ gen_baseline = NoBaseline
    /\ ClsIdle
    /\ RetIdle
    /\ FmtIdle
    /\ auth_db = [users |-> SessionUsers, sessions |-> LoadedSessions,
                  issued |-> 0]
    /\ reply_db = [replies |-> <<>>]
    /\ now = 0
    /\ app_last = NoAnswer
    /\ auth_gone = {}
    /\ AskIdle
    /\ ConcIdle

LogoutRequestStep ==
    /\ \E cookie \in SessionCookies : LogoutRequest(cookie)
    /\ AppOthersUnchanged

MeRequestStep ==
    /\ \E cookie \in SessionCookies : MeRequest(cookie)
    /\ AppOthersUnchanged

LoadDataStep ==
    /\ LoadData
    /\ AppOthersUnchanged

TickStep ==
    /\ Tick
    /\ AppOthersUnchanged

SessionNext ==
    \/ LoginRequestStep
    \/ LogoutRequestStep
    \/ MeRequestStep
    \/ LoadDataStep
    \/ TickStep
    \/ AppReturnStep

SessionSpec == SessionInit /\ [][SessionNext]_vars

-----------------------------------------------------------------------------
(* A claim about the sessions *)

\* the lookup of a session id that the step has just made through /api/me
LookedUp(cookie) ==
    /\ Answered
    /\ app_last'.route = "me"
    /\ app_last'.cookie = cookie

\* C26: a lookup returns a user only for a session id that is in the
\* session map, not past its expiry time and active; a logout and a lookup
\* that finds the session expired remove it from the map; and once a
\* session id has left the map it is not in the map again and every
\* lookup of it returns None.
C26_OnlyLiveSessionsResolve ==
    [][\A cookie \in SessionCookies \ {None} :
           /\ (LookedUp(cookie) /\ app_last'.current_user # None)
              => \E s \in auth_db.sessions :
                     /\ s.session_id = cookie
                     /\ now <= s.expires_at
                     /\ s.is_active
                     /\ s.user_id = app_last'.current_user
           /\ ( /\ LookedUp(cookie)
                /\ \E s \in auth_db.sessions :
                       s.session_id = cookie /\ now > s.expires_at )
              => /\ app_last'.current_user = None
                 /\ cookie \notin SessionIds(auth_db')
                 /\ cookie \in auth_gone'
           /\ ( /\ Answered
                /\ app_last'.route = "logout"
                /\ app_last'.cookie = cookie )
              => /\ cookie \notin SessionIds(auth_db')
                 /\ cookie \in SessionIds(auth_db) => cookie \in auth_gone'
           /\ cookie \in auth_gone
              => /\ cookie \notin SessionIds(auth_db')
                 /\ LookedUp(cookie) => app_last'.current_user = None]_vars

\* the session made by a login was looked up after a logout had deleted it,
\* at an instant when it would not have expired
C26_Witness ==
    /\ app_last.route = "me"
    /\ app_last.cookie = "t1"
    /\ app_last.current_user = None
    /\ "t1" \in auth_gone
    /\ "t2" \in SessionIds(auth_db)
    /\ now = SessionDays

-----------------------------------------------------------------------------
(* The reply routes (web_app_with_replies.py) over ReplyDatabase           *)
(* (reply_models.py)                                                       *)

\* ReplyDatabase.get_reply_by_id: the place of the reply in the map, 0 for
\* the None of an id that is not a key
get_reply_by_id(db, reply_id) ==
    IF \E i \in 1..Len(db.replies) : db.replies[i].id = reply_id
    THEN CHOOSE i \in 1..Len(db.replies) : db.replies[i].id = reply_id
    ELSE 0

\* an author check that lets every user through
NotAuthor_never(db, i, user) == FALSE

\* reply.user_id != request.current_user.id
NotAuthor(db, i, user) == db.replies[i].user_id # user

\* ReplyDatabase.update_reply: what it returns, and the store as it leaves it
update_reply(db, reply_id, content, clock) ==
    LET i == get_reply_by_id(db, reply_id)
    IN  IF i = 0 THEN [value |-> FALSE, db |-> db]
        ELSE [value |-> TRUE,
              db |-> [db EXCEPT !.replies[i].content = content,
                                !.replies[i].updated_at = clock]]

\* ReplyDatabase.delete_reply
delete_reply(db, reply_id, clock) ==
    LET i == get_reply_by_id(db, reply_id)
    IN  IF i = 0 THEN [value |-> FALSE, db |-> db]
        ELSE [value |-> TRUE,
              db |-> [db EXCEPT !.replies[i].is_deleted = TRUE,
                                !.replies[i].updated_at = clock]]

\* max(0, n)
AtLeastZero(n) == IF n < 0 THEN 0 ELSE n

\* a toggle_helpful that counts a vote at every call
toggle_helpful_counts_calls(db, reply_id, clock) ==
    LET i == get_reply_by_id(db, reply_id)
    IN  IF i = 0 THEN [found |-> FALSE, value |-> FALSE, db |-> db]
        ELSE [found |-> TRUE, value |-> ~db.replies[i].is_helpful,
              db |-> [db EXCEPT !.replies[i].is_helpful = ~@,
                                !.replies[i].helpful_votes = @ + 1,
                                !.replies[i].updated_at = clock]]

\* ReplyDatabase.toggle_helpful: found is false for the None of an unknown
\* id, value is the is_helpful returned otherwise
toggle_helpful(db, reply_id, clock) ==
    LET i == get_reply_by_id(db, reply_id)
        is_helpful == ~db.replies[i].is_helpful
        helpful_votes ==
            IF is_helpful THEN db.replies[i].helpful_votes + 1
            ELSE AtLeastZero(db.replies[i].helpful_votes - 1)
    IN  IF i = 0 THEN [found |-> FALSE, value |-> FALSE, db |-> db]
        ELSE [found |-> TRUE, value |-> is_helpful,
              db |-> [db EXCEPT !.replies[i].is_helpful = is_helpful,
                                !.replies[i].helpful_votes = helpful_votes,
                                !.replies[i].updated_at = clock]]

RECURSIVE SortNewestFirst(_)
\* list.sort(key=created_at, reverse=True): the replies of the greatest
\* created_at first, replies of one created_at in the order they had
SortNewestFirst(replies) ==
    IF replies = <<>> THEN <<>>
    ELSE LET newest ==
                 CHOOSE t \in {replies[i].created_at : i \in 1..Len(replies)} :
                     \A i \in 1..Len(replies) : replies[i].created_at <= t
             IsNewest(r) == r.created_at = newest
             IsOlder(r) == r.created_at # newest
         IN  SelectSeq(replies, IsNewest)
                 \o SortNewestFirst(SelectSeq(replies, IsOlder))

\* a get_replies_for_qa that does not look at the deleted flag
get_replies_for_qa_with_deleted(db, qa_id) ==
    LET Wanted(r) == r.qa_id = qa_id
    IN  SortNewestFirst(SelectSeq(db.replies, Wanted))

\* ReplyDatabase.get_replies_for_qa
get_replies_for_qa(db, qa_id) ==
    LET Wanted(r) == r.qa_id = qa_id /\ ~r.is_deleted
    IN  SortNewestFirst(SelectSeq(db.replies, Wanted))

\* ReplyDatabase.get_reply_stats: the two counts, and the replies counted
\* for each contributor
get_reply_stats(db) ==
    LET Counted(r) == ~r.is_deleted
        Helpful(r) == r.is_helpful /\ ~r.is_deleted
        counted == SelectSeq(db.replies, Counted)
        names == {counted[i].username : i \in 1..Len(counted)}
    IN  [total_replies |-> Len(counted),
         helpful_replies |-> Len(SelectSeq(db.replies, Helpful)),
         user_reply_counts |->
             [n \in names |->
                 Cardinality({i \in 1..Len(counted) :
                                  counted[i].username = n})]]

\* the ids of the replies of a list
IdsOf(replies) == [i \in 1..Len(replies) |-> replies[i].id]

\* GET /api/replies/<qa_id> (lines 419-428)
GetRepliesRequest(cookie, qa_id) ==
    /\ app_last = NoAnswer
    /\ LET auth == login_required(auth_db, cookie, now)
           replies == get_replies_for_qa(reply_db, qa_id)
       IN  /\ auth_db' = auth.db
           /\ IF auth.status = 401
              THEN Answer("get_replies", cookie, 401, auth.error, None,
                          FALSE, qa_id, <<>>)
              ELSE Answer("get_replies", cookie, 200, "", auth.user, TRUE,
                          qa_id, IdsOf(replies))
    /\ UNCHANGED <<reply_db, now>>

\* POST /api/replies/<reply_id>/helpful (lines 468-482)
ToggleHelpfulRequest(cookie, reply_id) ==
    /\ app_last = NoAnswer
    /\ LET auth == login_required(auth_db, cookie, now)
           r == toggle_helpful(reply_db, reply_id, now)
       IN  /\ auth_db' = auth.db
           /\ IF auth.status = 401
              THEN /\ Answer("toggle_helpful", cookie, 401, auth.error, None,
                             FALSE, reply_id, <<>>)
                   /\ reply_db' = reply_db
              ELSE IF ~r.found
              THEN /\ Answer("toggle_helpful", cookie, 404, "Reply not found",
                             auth.user, TRUE, reply_id, <<>>)
                   /\ reply_db' = r.db
              ELSE /\ Answer("toggle_helpful", cookie, 200, "", auth.user,
                             TRUE, reply_id, <<>>)
                   /\ reply_db' = r.db
    /\ UNCHANGED now

\* the answer to a call whose input is kept
AnswerTo(call, status, error, user, ran, target) ==
    /\ app_last' = [call EXCEPT !.status = status, !.error = error,
                                !.current_user = user, !.handler_ran = ran,
                                !.target = target]
    /\ auth_gone' = Gone

\* PUT /api/replies/<reply_id> (lines 485-512).  data is [present, content];
\* a body that is missing or holds no content has present = FALSE.
UpdateReplyRequest(cookie, reply_id, data) ==
    /\ app_last = NoAnswer
    /\ LET auth == login_required(auth_db, cookie, now)
           i == get_reply_by_id(reply_db, reply_id)
           r == update_reply(reply_db, reply_id, Strip(data.content), now)
           call == Called("update_reply", cookie,
                          IF data.present THEN <<data.content>> ELSE <<>>)
       IN  /\ auth_db' = auth.db
           /\ IF auth.status = 401
              THEN /\ AnswerTo(call, 401, auth.error, None, FALSE, reply_id)
                   /\ reply_db' = reply_db
              ELSE IF ~data.present \/ data.content = <<>>
              THEN /\ AnswerTo(call, 400, "Content is required", auth.user,
                               TRUE, reply_id)
                   /\ reply_db' = reply_db
              ELSE IF i = 0
              THEN /\ AnswerTo(call, 404, "Reply not found", auth.user,
                               TRUE, reply_id)
                   /\ reply_db' = reply_db
              ELSE IF NotAuthor(reply_db, i, auth.user)
              THEN /\ AnswerTo(call, 403,
                               "You can only edit your own replies",
                               auth.user, TRUE, reply_id)
                   /\ reply_db' = reply_db
              ELSE IF r.value
              THEN /\ AnswerTo(call, 200, "", auth.user, TRUE, reply_id)
                   /\ reply_db' = r.db
              ELSE /\ AnswerTo(call, 500, "Failed to update reply",
                               auth.user, TRUE, reply_id)
                   /\ reply_db' = r.db
    /\ UNCHANGED now

\* GET /api/stats (lines 193-220), of whose answer reply_stats is kept
GetStatsRequest(cookie) ==
    /\ app_last = NoAnswer
    /\ LET auth == login_required(auth_db, cookie, now)
           stats == get_reply_stats(reply_db)
       IN  /\ auth_db' = auth.db
           /\ IF auth.status = 401
              THEN app_last' =
                       [Called("get_stats", cookie, <<>>) EXCEPT
                           !.status = 401, !.error = auth.error]
              ELSE app_last' =
                       [Called("get_stats", cookie, <<>>) EXCEPT
                           !.status = 200, !.current_user = auth.user,
                           !.handler_ran = TRUE,
                           !.reply_stats =
                               [total_replies |-> stats.total_replies,
                                helpful_replies |-> stats.helpful_replies]]
    /\ auth_gone' = Gone
    /\ UNCHANGED <<reply_db, now>>

\* DELETE /api/replies/<reply_id> (lines 515-535)
DeleteReplyRequest(cookie, reply_id) ==
    /\ app_last = NoAnswer
    /\ LET auth == login_required(auth_db, cookie, now)
           i == get_reply_by_id(reply_db, reply_id)
           r == delete_reply(reply_db, reply_id, now)
       IN  /\ auth_db' = auth.db
           /\ IF auth.status = 401
              THEN /\ Answer("delete_reply", cookie, 401, auth.error, None,
                             FALSE, reply_id, <<>>)
                   /\ reply_db' = reply_db
              ELSE IF i = 0
              THEN /\ Answer("delete_reply", cookie, 404, "Reply not found",
                             auth.user, TRUE, reply_id, <<>>)
                   /\ reply_db' = reply_db
              ELSE IF NotAuthor(reply_db, i, auth.user)
              THEN /\ Answer("delete_reply", cookie, 403,
                             "You can only delete your own replies",
                             auth.user, TRUE, reply_id, <<>>)
                   /\ reply_db' = reply_db
              ELSE IF r.value
              THEN /\ Answer("delete_reply", cookie, 200, "", auth.user,
                             TRUE, reply_id, <<>>)
                   /\ reply_db' = r.db
              ELSE /\ Answer("delete_reply", cookie, 500,
                             "Failed to delete reply", auth.user, TRUE,
                             reply_id, <<>>)
                   /\ reply_db' = r.db
    /\ UNCHANGED now

-----------------------------------------------------------------------------
(* ReplySpec: requests to the reply routes by two users, with and without  *)
(* a session                                                               *)

\* s1 is a session of the first user and s2 one of the second, both one
\* day old; s3 is a session of the first user one day past its end
ReplySessions ==
    { StoredSession("s1", "u1", SessionDays),
      StoredSession("s2", "u2", SessionDays),
      StoredSession("s3", "u1", 0) }

ReplyCookies == {None, "s1", "s2", "s3"}

\* the reply ids of the requests: those a run can make, and one more
ReplyIds == 1..(MaxReplies + 1)

ReplyBodies ==
    { [present |-> FALSE, content |-> <<>>],
      [present |-> TRUE, content |-> <<>>],
      [present |-> TRUE, content |-> <<" ", "e">>] }

ReplyInit ==
    /\ qa_database = [attached |-> TRUE, data |-> StoreOf(AskEntries)]
    /\ openai_api_key = FALSE
    /\ claude_api_key = FALSE
    /\ GenIdle
    /\ gen_baseline = NoBaseline
    /\ ClsIdle
    /\ RetIdle
    /\ FmtIdle
    /\ auth_db = [users |-> SessionUsers, sessions |-> ReplySessions,
                  issued |-> 0]
    /\ reply_db = [replies |-> <<>>]
    /\ now = AskNow
    /\ app_last = NoAnswer
    /\ auth_gone = {}
    /\ AskIdle
    /\ ConcIdle

GetRepliesRequestStep ==
    /\ \E cookie \in ReplyCookies, qa_id \in {1, 2} :
           GetRepliesRequest(cookie, qa_id)
    /\ AppOthersUnchanged

ToggleHelpfulRequestStep ==
    /\ \E cookie \in ReplyCookies, reply_id \in ReplyIds :
           ToggleHelpfulRequest(cookie, reply_id)
    /\ AppOthersUnchanged

UpdateReplyRequestStep ==
    /\ \E cookie \in ReplyCookies, reply_id \in ReplyIds,
          data \in ReplyBodies :
           UpdateReplyRequest(cookie, reply_id, data)
    /\ AppOthersUnchanged

DeleteReplyRequestStep ==
    /\ \E cookie \in ReplyCookies, reply_id \in ReplyIds :
           DeleteReplyRequest(cookie, reply_id)
    /\ AppOthersUnchanged

ReplyNext ==
    \/ AddReplyRequestStep
    \/ GetRepliesRequestStep
    \/ ToggleHelpfulRequestStep
    \/ UpdateReplyRequestStep
    \/ DeleteReplyRequestStep
    \/ AppReturnStep

ReplySpec == ReplyInit /\ [][ReplyNext]_vars

-----------------------------------------------------------------------------
(* A claim about login_required *)

\* the user a request with this session cookie is made for: None when the
\* request has no cookie, when no session has the id, when the session is
\* past its expiry time or not active, and when its user is not stored
UserOfCookie(cookie) ==
    LET live == {s \in auth_db.sessions :
                    /\ s.session_id = cookie
                    /\ now <= s.expires_at
                    /\ s.is_active
                    /\ \E i \in 1..Len(auth_db.users) :
                           auth_db.users[i].id = s.user_id}
    IN  IF cookie = None \/ live = {} THEN None
        ELSE (CHOOSE s \in live : TRUE).user_id

\* C27: a request to /api/add, /api/replies or /api/ask-ai whose cookie is
\* missing or resolves to no user is answered 401, its handler does not
\* run and the Q&A store and the reply store stay as they were; a handler
\* that runs has the user of the request's live session as current_user.
C27_NoHandlerWithoutASession ==
    [][/\ (Answered /\ app_last'.route \in {"add_qa", "add_reply"})
          => LET user == UserOfCookie(app_last'.cookie)
             IN  /\ user = None
                    => /\ app_last'.status = 401
                       /\ ~app_last'.handler_ran
                       /\ qa_database' = qa_database
                       /\ reply_db' = reply_db
                 /\ app_last'.handler_ran
                    => /\ user # None
                       /\ app_last'.current_user = user
       /\ \A cookie \in AskCookies, data \in AskData :
              AskRequest(cookie, data)
              => LET user == UserOfCookie(cookie)
                 IN  /\ ask_user' = user
                     /\ user = None
                        => /\ ask_pc' = "responded"
                           /\ ask_response'.status = 401
                           /\ ask_stages' = <<>>
                           /\ qa_database' = qa_database
                           /\ reply_db' = reply_db]_vars

\* a reply request with the cookie of the expired session has been answered
\* 401 without its handler, in a run where the user had added a reply and a
\* Q&A pair with the live session
C27_Witness ==
    /\ app_last.route = "add_reply"
    /\ app_last.cookie = "s2"
    /\ app_last.status = 401
    /\ ~app_last.handler_ran
    /\ "s2" \in auth_gone
    /\ Len(reply_db.replies) = 1
    /\ Len(qa_database.data) > Len(AskEntries)

-----------------------------------------------------------------------------
(* Claims about the replies *)

\* a reply is stored under the id
KnownReply(reply_id) ==
    \E i \in 1..Len(reply_db.replies) : reply_db.replies[i].id = reply_id

\* the user_id of the reply stored under the id
AuthorOf(reply_id) ==
    LET i == CHOOSE i \in 1..Len(reply_db.replies) :
                 reply_db.replies[i].id = reply_id
    IN  reply_db.replies[i].user_id

\* the step changes the content or the deleted flag of a reply only when it
\* answers an update or a delete request of the reply's author
OnlyTheAuthorChanges ==
    \A i \in 1..Len(reply_db.replies) :
        ( \/ reply_db'.replies[i].content # reply_db.replies[i].content
          \/ reply_db'.replies[i].is_deleted # reply_db.replies[i].is_deleted )
        => /\ app_last'.route \in {"update_reply", "delete_reply"}
           /\ app_last'.current_user = reply_db.replies[i].user_id

\* the step answers a request of a logged-in user to the route
Handled(route) ==
    /\ Answered
    /\ app_last'.route = route
    /\ app_last'.handler_ran

\* the request answered is for an unknown id, or for the reply of another
\* user than the one logged in
NotTheAuthors ==
    \/ ~KnownReply(app_last'.target)
    \/ AuthorOf(app_last'.target) # UserOfCookie(app_last'.cookie)

\* 404 for an unknown id, 403 for the reply of another user, and no change
RefusedBy403Or404 ==
    /\ app_last'.status =
           IF KnownReply(app_last'.target) THEN 403 ELSE 404
    /\ reply_db' = reply_db

\* Not what the program does.  C28 as the specification words it: every
\* update and every delete request of a logged-in user for an unknown id
\* or for the reply of another user is answered 404 or 403.
C28_EveryUpdateRefusedBy403Or404 ==
    [][/\ OnlyTheAuthorChanges
       /\ (Handled("delete_reply") /\ NotTheAuthors) => RefusedBy403Or404
       /\ (Handled("update_reply") /\ NotTheAuthors) => RefusedBy403Or404]_vars

\* C28, amended: the content and the deleted flag of a reply are changed
\* only by update and delete requests of its author; a delete request, and
\* an update request that carries content, is answered 404 for an unknown
\* id and 403 for the reply of another user; an update request that
\* carries no content is answered 400 whatever the id; none of these
\* changes a reply.
C28_OnlyTheAuthorEditsOrDeletes ==
    [][/\ OnlyTheAuthorChanges
       /\ (Handled("delete_reply") /\ NotTheAuthors) => RefusedBy403Or404
       /\ Handled("update_reply")
          => IF app_last'.input \in {<<>>, << <<>> >>}
             THEN app_last'.status = 400 /\ reply_db' = reply_db
             ELSE NotTheAuthors => RefusedBy403Or404]_vars

\* the second user's update of the first user's reply has been answered
\* 403, after the first user had edited that reply and deleted another
C28_Witness ==
    /\ app_last.route = "update_reply"
    /\ app_last.status = 403
    /\ app_last.current_user = "u2"
    /\ app_last.target = 1
    /\ Len(reply_db.replies) = 2
    /\ reply_db.replies[1].user_id = "u1"
    /\ reply_db.replies[1].content = <<"e">>
    /\ reply_db.replies[2].is_deleted

\* the step answers a toggle request of a logged-in user for this reply id
Toggled(reply_id) ==
    /\ Answered
    /\ app_last'.route = "toggle_helpful"
    /\ app_last'.handler_ran
    /\ app_last'.target = reply_id

\* C30: every stored reply has helpful_votes 1 when is_helpful is true and
\* 0 when it is false; a toggle of a stored reply by any logged-in user
\* flips is_helpful; a toggle that follows a toggle of the same reply gives
\* both fields the values they had before the first; a toggle of an
\* unknown id is answered 404 for the None of toggle_helpful and changes no
\* reply.
C30_VotesFollowTheHelpfulFlag ==
    [][/\ \A i \in 1..Len(reply_db'.replies) :
              reply_db'.replies[i].helpful_votes =
                  IF reply_db'.replies[i].is_helpful THEN 1 ELSE 0
       /\ \A reply_id \in ReplyIds :
              Toggled(reply_id)
              => IF \E i \in 1..Len(reply_db.replies) :
                        reply_db.replies[i].id = reply_id
                 THEN /\ app_last'.status = 200
                      /\ \A i \in 1..Len(reply_db.replies) :
                             reply_db.replies[i].id = reply_id
                             => /\ reply_db'.replies[i].is_helpful
                                       = ~reply_db.replies[i].is_helpful
                                /\ reply_db'.replies[i].helpful_votes
                                       = IF reply_db.replies[i].is_helpful
                                         THEN 0 ELSE 1
                 ELSE /\ app_last'.status = 404
                      /\ reply_db' = reply_db]_vars

\* the second user has toggled the first user's reply back to not helpful,
\* after a first toggle had made it helpful and another reply had been
\* marked helpful as well
C30_Witness ==
    /\ app_last.route = "toggle_helpful"
    /\ app_last.status = 200
    /\ app_last.current_user = "u2"
    /\ app_last.target = 1
    /\ Len(reply_db.replies) = 2
    /\ reply_db.replies[1].user_id = "u1"
    /\ ~reply_db.replies[1].is_helpful
    /\ reply_db.replies[1].helpful_votes = 0
    /\ reply_db.replies[2].is_helpful
    /\ reply_db.replies[2].helpful_votes = 1

-----------------------------------------------------------------------------
(* ThreadSpec: one user adds, marks, deletes and lists replies of two Q&A  *)
(* pairs as time passes                                                    *)

ThreadCookies == {None, "s1"}

ThreadInit ==
    /\ qa_database = [attached |-> TRUE, data |-> StoreOf(AskEntries)]
    /\ openai_api_key = FALSE
    /\ claude_api_key = FALSE
    /\ GenIdle
    /\ gen_baseline = NoBaseline
    /\ ClsIdle
    /\ RetIdle
    /\ FmtIdle
    /\ auth_db = [users |-> SessionUsers,
                  sessions |-> {StoredSession("s1", "u1", 0)},
                  issued |-> 0]
    /\ reply_db = [replies |-> <<>>]
    /\ now = 0
    /\ app_last = NoAnswer
    /\ auth_gone = {}
    /\ AskIdle
    /\ ConcIdle

ThreadAddStep ==
    /\ \E qa_id \in {1, 2} : AddReplyRequest("s1", qa_id, <<"r">>)
    /\ AskOthersUnchanged

ThreadToggleStep ==
    /\ \E reply_id \in ReplyIds : ToggleHelpfulRequest("s1", reply_id)
    /\ AppOthersUnchanged

ThreadDeleteStep ==
    /\ \E reply_id \in ReplyIds : DeleteReplyRequest("s1", reply_id)
    /\ AppOthersUnchanged

ThreadListStep ==
    /\ \E cookie \in ThreadCookies, qa_id \in {1, 2} :
           GetRepliesRequest(cookie, qa_id)
    /\ AppOthersUnchanged

ThreadStatsStep ==
    /\ \E cookie \in ThreadCookies : GetStatsRequest(cookie)
    /\ AppOthersUnchanged

ThreadNext ==
    \/ ThreadAddStep
    \/ ThreadToggleStep
    \/ ThreadDeleteStep
    \/ ThreadListStep
    \/ ThreadStatsStep
    \/ TickStep
    \/ AppReturnStep

ThreadSpec == ThreadInit /\ [][ThreadNext]_vars

\* the places of the replies that are not deleted
Live(replies) == {i \in 1..Len(replies) : ~replies[i].is_deleted}

\* created_at of the reply stored under the id
CreatedAt(reply_id) ==
    LET i == CHOOSE i \in 1..Len(reply_db.replies) :
                 reply_db.replies[i].id = reply_id
    IN  reply_db.replies[i].created_at

\* C29: a reply whose delete request succeeded is still stored under its
\* id and is marked deleted; a reply stays where it is in the map under its
\* id, and one that is marked deleted stays marked; the list of a Q&A id
\* holds each reply of that id that is not deleted once and no other
\* reply, a reply with a later created_at never after one with an earlier;
\* the counts of reply_stats are those of the replies not deleted.
C29_DeletedRepliesStayAndAreHidden ==
    [][/\ Len(reply_db'.replies) >= Len(reply_db.replies)
       /\ \A i \in 1..Len(reply_db.replies) :
              /\ reply_db'.replies[i].id = reply_db.replies[i].id
              /\ reply_db.replies[i].is_deleted
                 => reply_db'.replies[i].is_deleted
       /\ ( /\ Answered
            /\ app_last'.route = "delete_reply"
            /\ app_last'.status = 200 )
          => \E i \in 1..Len(reply_db'.replies) :
                 /\ reply_db'.replies[i].id = app_last'.target
                 /\ reply_db'.replies[i].is_deleted
       /\ ( /\ Answered
            /\ app_last'.route = "get_replies"
            /\ app_last'.status = 200 )
          => LET listed == app_last'.listed
             IN  /\ \A k \in 1..Len(listed) :
                        \E i \in Live(reply_db.replies) :
                            /\ reply_db.replies[i].id = listed[k]
                            /\ reply_db.replies[i].qa_id = app_last'.target
                 /\ \A i \in Live(reply_db.replies) :
                        reply_db.replies[i].qa_id = app_last'.target
                        => \E k \in 1..Len(listed) :
                               listed[k] = reply_db.replies[i].id
                 /\ \A k, l \in 1..Len(listed) :
                        k < l => /\ listed[k] # listed[l]
                                 /\ CreatedAt(listed[k]) >= CreatedAt(listed[l])
       /\ ( /\ Answered
            /\ app_last'.route = "get_stats"
            /\ app_last'.status = 200 )
          => /\ app_last'.reply_stats.total_replies
                    = Cardinality(Live(reply_db.replies))
             /\ app_last'.reply_stats.helpful_replies
                    = Cardinality({i \in Live(reply_db.replies) :
                                       reply_db.replies[i].is_helpful})]_vars

\* the list of the first Q&A pair has been answered with the later of its
\* two replies alone, the earlier one, marked helpful, having been deleted
\* and still being stored
C29_Witness ==
    /\ app_last.route = "get_replies"
    /\ app_last.status = 200
    /\ app_last.target = 1
    /\ app_last.listed = <<2>>
    /\ Len(reply_db.replies) = 2
    /\ reply_db.replies[1].qa_id = 1
    /\ reply_db.replies[1].is_deleted
    /\ reply_db.replies[1].is_helpful
    /\ reply_db.replies[2].qa_id = 1
    /\ reply_db.replies[2].created_at > reply_db.replies[1].created_at

=============================================================================
